---- MODULE Spec2Model ----
(***************************************************************************)
(* Model of the two route handlers of the repository:                      *)
(*   src/app/api/gemini/route.ts    POST: caching text-generation proxy    *)
(*   src/app/api/did/talk/route.ts  POST: avatar-video proxy (four-tier    *)
(*                                  submission cascade and status polling) *)
(* Every invocation of a handler is a process.  A process takes one step   *)
(* per await of the handler: the code between two awaits runs atomically   *)
(* on the single JavaScript thread, and other invocations and the clock    *)
(* may move at every await.                                                *)
(***************************************************************************)
EXTENDS Integers, Sequences, FiniteSets, TLC

\* ------------------------------------------------------------------ bounds
MaxLen == 2          \* longest request text
MaxTicks == 3        \* clock advances in a run of the gemini handler
MaxDidTicks == 27    \* clock advances in a run of the talk handler
MaxShortTicks == 3   \* ... in the runs over every configuration of the credentials
MaxBothTicks == 1    \* ... of either handler, in the runs of the two side by side
MaxBothLen == 1      \* longest request text in those runs
MaxCreateTicks == 2  \* ... of which while the submission cascade is running
MaxLateTicks == 1    \* ... by which the timer of the poll loop may fire late
MaxPending == 2      \* callbacks of the page pending at a time

\* --------------------------------------------------------------- constants
CACHE_DURATION == 5 * 60 * 1000

\* Characters of request texts: a whitespace, a lower and an upper case letter
Chars == {" ", "a", "A"}
\* Candidate texts the generation upstream may answer with
Replies == {"r1", "r2"}
\* Non-success answers of the generation upstream
UpStatuses == {429, 503}
ErrBodies == {"quota"}
\* Clock advances that matter to the cache
GenTickSteps == {1, CACHE_DURATION - 1}

\* invocations of the gemini handler
GenProcs == {1, 2}

timeoutMs == 30000
intervalMs == 1200

\* Values of the environment variables DID_API_KEY, NEXT_PUBLIC_DID_API_KEY
\* and DID_BASIC_AUTH; <<>> is unset (or the empty string), <<" ">> is a
\* value of whitespace only
DidKeys == {<<>>, <<"k">>}
DidPublicKeys == {<<>>, <<"p">>}
DidBasicAuths == {<<>>, <<" ">>, <<"x">>, <<"Basic ", "x">>}
\* Error bodies and job ids the talk upstream may answer with
SubErrBodies == {"e1", "e2"}
JobIds == {"job1", "job2"}
\* Clock advances of the talk runs
DidTickSteps == {intervalMs}

\* invocations of the talk handler
DidProcs == {1, 2}

VARIABLES
    now,            \* Date.now()
    ticks,          \* number of clock advances so far
    genApiKey,      \* process.env.GOOGLE_GENERATIVE_API_KEY ("" when unset)
    responseCache,  \* Map: cacheKey -> [response, timestamp]
    gpc,            \* position of each gemini invocation
    gReq,           \* the request body of each invocation
    gKey,           \* local cacheKey
    gCached,        \* local cached: what responseCache.get(cacheKey) gave
    gUpstream,      \* local upstream (the fetch Response)
    gCalls,         \* upstream requests issued by the invocation
    gWroteAt,       \* timestamp the invocation put in the cache, -1 if none
    gResult,        \* the NextResponse returned
    didApiKeyEnv,   \* process.env.DID_API_KEY
    didPublicKeyEnv,\* process.env.NEXT_PUBLIC_DID_API_KEY
    didBasicAuthEnv,\* process.env.DID_BASIC_AUTH
    dpc,            \* position of each talk invocation
    dReq,           \* the request body of each invocation
    dAuth,          \* locals studioApiKey, basicAuth
    dOut,           \* the outbound request in flight, if any
    dSub,           \* createTalk: the tiers answered so far, in order
    dId,            \* local id
    dStartedAt,     \* local startedAt, -1 before the poll loop
    dLastStatus,    \* local lastStatus
    dS,             \* local s: the last poll response
    dWakeAt,        \* when the pending setTimeout fires
    dRes,           \* local res: how the last fetch was answered
    dErr,           \* fetchTalkStatus, locals err and detail: the text of the
                    \* non-success response just read, "" otherwise
    dFirstReqAt,    \* when createTalk issued its first request, -1 before
    dResult,        \* the NextResponse returned
    interactiveMode,\* the page: state interactiveMode
    isListening,    \* the page: state isListening
    recognition,    \* the session of recognitionRef.current: "off", "on",
                    \* "ending" (stopped or failed), "aborting"
    handlers,       \* rec.onresult, rec.onerror, rec.onend: who installed them,
                    \* what they close over, and their finalTranscript
    pending,        \* callbacks to come, in the order they were set: timers
                    \* (left: time left, in units of 100 ms), the request to
                    \* /api/gemini ("fetch", then "json" while the body of
                    \* its answer is read), an interrupted utterance
    utterance,      \* the utterance being spoken by the auto-speak callback
    last            \* what the last step of the page did

gvars == <<genApiKey, responseCache, gpc, gReq, gKey, gCached, gUpstream, gCalls,
           gWroteAt, gResult>>
denv == <<didApiKeyEnv, didPublicKeyEnv, didBasicAuthEnv>>
dvars == <<dpc, dReq, dAuth, dOut, dSub, dId, dStartedAt, dLastStatus, dS,
           dWakeAt, dRes, dErr, dFirstReqAt, dResult>>
uvars == <<interactiveMode, isListening, recognition, handlers, pending, utterance, last>>
vars == <<now, ticks, gvars, denv, dvars, uvars>>

\* the page: delays of its timers, in units of 100 ms
StartDelay == 1
SpeakDelay == 2
AfterSpeechDelay == 8
AfterSpeechErrorDelay == 10
AfterErrorDelay == 20
RetryDelay == 30

\* e.error of a SpeechRecognitionErrorEvent, other than "aborted"
RecErrors == {"no-speech", "network"}

\* ------------------------------------------------------------------ strings
RECURSIVE StringsOfLen(_)
StringsOfLen(n) ==
    IF n = 0 THEN {<<>>}
    ELSE {Append(s, c) : s \in StringsOfLen(n - 1), c \in Chars}

Strings == UNION {StringsOfLen(n) : n \in 0..MaxLen}

IsSpace(c) == c = " "

\* String.prototype.trim
RECURSIVE TrimStart(_)
TrimStart(s) ==
    IF s # <<>> /\ IsSpace(Head(s)) THEN TrimStart(Tail(s)) ELSE s

RECURSIVE TrimEnd(_)
TrimEnd(s) ==
    IF s # <<>> /\ IsSpace(s[Len(s)])
    THEN TrimEnd(SubSeq(s, 1, Len(s) - 1)) ELSE s

Trim(s) == TrimEnd(TrimStart(s))

LowerChar(c) == IF c = "A" THEN "a" ELSE c

\* the key not case-folded
ToLowerCaseIdentity(s) == s

\* String.prototype.toLowerCase
ToLowerCase(s) == [i \in 1..Len(s) |-> LowerChar(s[i])]

\* ------------------------------------------------------------ request body
\* kind "badjson": request.json() rejects; "nontext": text is not a string;
\* "json": an object whose text is present (hasText) or missing
Bodies ==
    {[kind |-> "badjson", hasText |-> FALSE, text |-> <<>>],
     [kind |-> "nontext", hasText |-> TRUE, text |-> <<>>],
     [kind |-> "json", hasText |-> FALSE, text |-> <<>>]}
    \cup {[kind |-> "json", hasText |-> TRUE, text |-> s] : s \in Strings}

NoBody == [kind |-> "none", hasText |-> FALSE, text |-> <<>>]

\* body?.text?.trim()  (only for kinds "json")
UserText(body) == IF body.hasText THEN Trim(body.text) ELSE <<>>

\* the text tested before it is trimmed
TextMissingUntrimmed(body) == ~body.hasText \/ body.text = <<>>

\* !userText : undefined or the empty string
TextMissing(body) == UserText(body) = <<>>

\* ------------------------------------------------------- upstream responses
\* kind "throw": fetch rejects; "nonok": !upstream.ok; "ok": upstream.ok with
\* shape "text" (a first candidate text), "missing" (no such field) or
\* "unparsable" (upstream.json() rejects)
GenResponses ==
    {[kind |-> "throw", status |-> 0, body |-> "", shape |-> "none"]}
    \cup {[kind |-> "nonok", status |-> st, body |-> b, shape |-> "none"] :
            st \in UpStatuses, b \in ErrBodies}
    \cup {[kind |-> "ok", status |-> 200, body |-> r, shape |-> "text"] :
            r \in Replies}
    \cup {[kind |-> "ok", status |-> 200, body |-> "", shape |-> "missing"],
          [kind |-> "ok", status |-> 200, body |-> "", shape |-> "unparsable"]}

NoResponse == [kind |-> "none", status |-> 0, body |-> "", shape |-> "none"]

\* the ?? "" fallback left out: a missing text stays undefined
CandidateTextNoFallback(resp) == IF resp.shape = "text" THEN resp.body ELSE "undefined"

\* data?.candidates?.[0]?.content?.parts?.[0]?.text ?? ""
CandidateText(resp) == IF resp.shape = "text" THEN resp.body ELSE ""

\* ------------------------------------------------------------ NextResponse
NoResult == [status |-> 0, reply |-> "", error |-> "", detail |-> <<>>, upstatus |-> 0]

ReplyJson(r) ==
    [status |-> 200, reply |-> r, error |-> "", detail |-> <<>>, upstatus |-> 0]

ErrorJson(code, err, det, up) ==
    [status |-> code, reply |-> "", error |-> err, detail |-> det, upstatus |-> up]

\* the catch block of both handlers: String(error)
RequestFailed(cause) == ErrorJson(500, "Request failed", <<cause>>, 0)

\* the key check left out
MissingKeyUnchecked(apiKey) == FALSE

\* line 18, !apiKey: the variable is unset or empty
MissingKey(apiKey) == apiKey = ""

\* --------------------------------------------------------------- the cache
\* the comparison reversed
CacheFreshReversed(cached, t) ==
    cached.present /\ t - cached.timestamp > CACHE_DURATION

\* the comparison made inclusive
CacheFreshInclusive(cached, t) ==
    cached.present /\ t - cached.timestamp <= CACHE_DURATION

\* cached && Date.now() - cached.timestamp < CACHE_DURATION
CacheFresh(cached, t) ==
    cached.present /\ t - cached.timestamp < CACHE_DURATION

\* responseCache.get(key): the entry, or undefined
Undefined == [present |-> FALSE, response |-> "", timestamp |-> 0]

CacheGet(cache, key) ==
    IF key \in DOMAIN cache
    THEN [present |-> TRUE, response |-> cache[key].response,
          timestamp |-> cache[key].timestamp]
    ELSE Undefined

\* a cache of one entry: the write drops the entries of the other keys
CacheSetSingle(cache, key, resp, t) ==
    [k \in {key} |-> [response |-> resp, timestamp |-> t]]

\* the entry stamped with the start of the process instead of Date.now()
CacheSetStaleStamp(cache, key, resp, t) ==
    [k \in DOMAIN cache \cup {key} |->
        IF k = key THEN [response |-> resp, timestamp |-> 0] ELSE cache[k]]

\* responseCache.set(key, {response, timestamp})
CacheSet(cache, key, resp, t) ==
    [k \in DOMAIN cache \cup {key} |->
        IF k = key THEN [response |-> resp, timestamp |-> t] ELSE cache[k]]

\* ------------------------------------------------ talk handler: helpers
\* a || b on strings: the first truthy (non-empty) operand
Or(a, b) == IF a # <<>> THEN a ELSE b

NoAuth == [studioApiKey |-> <<>>, basicAuth |-> <<>>]

\* v.startsWith("Basic ")
StartsWithBasic(v) == Len(v) > 0 /\ v[1] = "Basic "

\* the API key tested before the Basic credential
buildAuthHeadersKeyFirst(opts) ==
    IF opts.studioApiKey # <<>> /\ Trim(opts.studioApiKey) # <<>>
    THEN [contentType |-> "application/json", authorization |-> <<>>,
          xApiKey |-> Trim(opts.studioApiKey)]
    ELSE IF opts.basicAuth # <<>> /\ Trim(opts.basicAuth) # <<>>
    THEN LET v == Trim(opts.basicAuth)
         IN  [contentType |-> "application/json",
              authorization |-> IF StartsWithBasic(v) THEN v ELSE <<"Basic ">> \o v,
              xApiKey |-> <<>>]
    ELSE [contentType |-> "application/json", authorization |-> <<>>,
          xApiKey |-> <<>>]

\* buildAuthHeaders
buildAuthHeaders(opts) ==
    IF opts.basicAuth # <<>> /\ Trim(opts.basicAuth) # <<>>
    THEN LET v == Trim(opts.basicAuth)
         IN  [contentType |-> "application/json",
              authorization |-> IF StartsWithBasic(v) THEN v ELSE <<"Basic ">> \o v,
              xApiKey |-> <<>>]
    ELSE IF opts.studioApiKey # <<>> /\ Trim(opts.studioApiKey) # <<>>
    THEN [contentType |-> "application/json", authorization |-> <<>>,
          xApiKey |-> Trim(opts.studioApiKey)]
    ELSE [contentType |-> "application/json", authorization |-> <<>>,
          xApiKey |-> <<>>]

NoHeaders == [contentType |-> "", authorization |-> <<>>, xApiKey |-> <<>>]

NoOut ==
    [kind |-> "none", endpoint |-> "", id |-> "", payload |-> "", headers |-> NoHeaders]

\* makeReqV1(body): POST https://api.d-id.com/v1/talks
makeReqV1(body, baseHeaders) ==
    [kind |-> "create", endpoint |-> "v1", id |-> "", payload |-> body,
     headers |-> baseHeaders]

\* makeReqLegacy(body): POST https://api.d-id.com/talks
makeReqLegacy(body, baseHeaders) ==
    [kind |-> "create", endpoint |-> "legacy", id |-> "", payload |-> body,
     headers |-> baseHeaders]

\* the legacy endpoint tried before the second payload
CreateRequestSwapped(n, baseHeaders) ==
    CASE n = 0 -> makeReqV1("primaryBody", baseHeaders)
      [] n = 1 -> makeReqLegacy("primaryBody", baseHeaders)
      [] n = 2 -> makeReqV1("secondaryBody", baseHeaders)
      [] OTHER -> makeReqLegacy("secondaryBody", baseHeaders)

\* createTalk, lines 75-90: the request made after n tiers have failed;
\* primaryBody is the minimal payload, secondaryBody has the voice provider
CreateRequest(n, baseHeaders) ==
    CASE n = 0 -> makeReqV1("primaryBody", baseHeaders)
      [] n = 1 -> makeReqV1("secondaryBody", baseHeaders)
      [] n = 2 -> makeReqLegacy("primaryBody", baseHeaders)
      [] OTHER -> makeReqLegacy("secondaryBody", baseHeaders)

\* the status requests authenticated with the API key alone
StatusRequestKeyOnly(endpoint, auth, id) ==
    [kind |-> "status", endpoint |-> endpoint, id |-> id, payload |-> "",
     headers |-> buildAuthHeaders([studioApiKey |-> auth.studioApiKey,
                                   basicAuth |-> <<>>])]

\* fetchTalkStatus: GET https://api.d-id.com/v1/talks/${id}, then /talks/${id}
StatusRequest(endpoint, auth, id) ==
    [kind |-> "status", endpoint |-> endpoint, id |-> id, payload |-> "",
     headers |-> buildAuthHeaders(auth)]

\* answers to a create request: fetch rejects ("throw"), !res.ok with a body,
\* res.ok with { id }, or res.ok with a body res.json() rejects ("unparsable")
CreateResponses ==
    {[kind |-> "throw", body |-> ""], [kind |-> "unparsable", body |-> ""]}
    \cup {[kind |-> "nonok", body |-> b] : b \in SubErrBodies}
    \cup {[kind |-> "ok", body |-> i] : i \in JobIds}

\* answers to a status request; for kind "ok" the parsed { status,
\* result_url, error }, absent fields are ""
StatusResponses ==
    {[kind |-> "throw", body |-> "", status |-> "", result_url |-> "", error |-> ""],
     [kind |-> "unparsable", body |-> "", status |-> "", result_url |-> "", error |-> ""],
     [kind |-> "nonok", body |-> "s1", status |-> "", result_url |-> "", error |-> ""],
     [kind |-> "nonok", body |-> "s2", status |-> "", result_url |-> "", error |-> ""],
     [kind |-> "ok", body |-> "", status |-> "pending", result_url |-> "", error |-> ""],
     [kind |-> "ok", body |-> "", status |-> "created", result_url |-> "", error |-> ""],
     [kind |-> "ok", body |-> "", status |-> "done", result_url |-> "url1", error |-> ""],
     [kind |-> "ok", body |-> "", status |-> "done", result_url |-> "", error |-> ""],
     [kind |-> "ok", body |-> "", status |-> "error", result_url |-> "", error |-> "failed"],
     [kind |-> "ok", body |-> "", status |-> "error", result_url |-> "", error |-> ""]}

NoStatus == [status |-> "", result_url |-> "", error |-> ""]

DidNoResult ==
    [status |-> 0, error |-> "", detail |-> <<>>, id |-> "", videoUrl |-> "",
     jobStatus |-> ""]

DidErrorJson(code, err, det, id, jobStatus) ==
    [status |-> code, error |-> err, detail |-> det, id |-> id, videoUrl |-> "",
     jobStatus |-> jobStatus]

DidVideoJson(id, url) ==
    [status |-> 200, error |-> "", detail |-> <<>>, id |-> id, videoUrl |-> url,
     jobStatus |-> ""]

\* the catch block, for new Error(prefix + body): String(error)
DidThrown(prefix, body) ==
    DidErrorJson(500, "Request failed", <<"Error: ", prefix, body>>, "", "")

\* the body of the first tier thrown instead of the last
createTalkErrorFirst(firstErr, legacyErr2) == DidThrown("D-ID create error: ", firstErr)

\* createTalk, lines 91-94: the error thrown when the fourth tier failed too,
\* as the catch block reports it
createTalkError(firstErr, legacyErr2) == DidThrown("D-ID create error: ", legacyErr2)

\* no catch block: the framework answers an uncaught exception itself
DidFailedUncaught(cause) == DidErrorJson(500, "Internal Server Error", <<>>, "", "")

\* the catch block, for an exception of the runtime
DidFailed(cause) == DidErrorJson(500, "Request failed", <<cause>>, "", "")

\* ------------------------------------------------------------------- Init
GenInit ==
    /\ genApiKey \in {"", "key"}
    /\ responseCache = <<>>
    /\ gpc = [p \in GenProcs |-> "idle"]
    /\ gReq = [p \in GenProcs |-> NoBody]
    /\ gKey = [p \in GenProcs |-> <<>>]
    /\ gCached = [p \in GenProcs |-> Undefined]
    /\ gUpstream = [p \in GenProcs |-> NoResponse]
    /\ gCalls = [p \in GenProcs |-> 0]
    /\ gWroteAt = [p \in GenProcs |-> -1]
    /\ gResult = [p \in GenProcs |-> NoResult]

\* the locals of the invocations of the talk handler before they start
DidInitLocals ==
    /\ dReq = [p \in DidProcs |-> NoBody]
    /\ dAuth = [p \in DidProcs |-> NoAuth]
    /\ dOut = [p \in DidProcs |-> NoOut]
    /\ dSub = [p \in DidProcs |-> <<>>]
    /\ dId = [p \in DidProcs |-> ""]
    /\ dStartedAt = [p \in DidProcs |-> -1]
    /\ dLastStatus = [p \in DidProcs |-> ""]
    /\ dS = [p \in DidProcs |-> NoStatus]
    /\ dWakeAt = [p \in DidProcs |-> -1]
    /\ dRes = [p \in DidProcs |-> "none"]
    /\ dErr = [p \in DidProcs |-> ""]
    /\ dFirstReqAt = [p \in DidProcs |-> -1]
    /\ dResult = [p \in DidProcs |-> DidNoResult]

\* one request to the talk handler arrives in the run; position "off": the
\* request of that number does not arrive
DidInit ==
    /\ didApiKeyEnv \in DidKeys
    /\ didPublicKeyEnv \in DidPublicKeys
    /\ didBasicAuthEnv \in DidBasicAuths
    /\ dpc = [p \in DidProcs |-> IF p = 1 THEN "idle" ELSE "off"]
    /\ DidInitLocals

NoHandlers == [kind |-> "none", c |-> [interactiveMode |-> FALSE, isListening |-> FALSE],
               finalTranscript |-> FALSE]

NoUtterance == [speaking |-> FALSE, c |-> [interactiveMode |-> FALSE, isListening |-> FALSE]]

\* what the last step did: rec.start() called and by which function, whether
\* it was called on a session that had not ended, whether a reply was
\* spoken by the auto-speak callback, whether an auto-restart callback ran
NoEffect == [start |-> "none", busy |-> FALSE, spoke |-> FALSE, restart |-> FALSE]

\* the page after its first render: lines 253-278
UiInit ==
    /\ interactiveMode = FALSE
    /\ isListening = FALSE
    /\ recognition = "off"
    /\ handlers = NoHandlers
    /\ pending = <<>>
    /\ utterance = NoUtterance
    /\ last = NoEffect

Init ==
    /\ now = 0
    /\ ticks = 0
    /\ GenInit
    /\ DidInit
    /\ UiInit

\* ------------------------------------------------- gemini handler, POST
\* return NextResponse.json(...): the invocation ends, its locals die
GenReturn(p, res) ==
    /\ gpc' = [gpc EXCEPT ![p] = "done"]
    /\ gResult' = [gResult EXCEPT ![p] = res]
    /\ gUpstream' = [gUpstream EXCEPT ![p] = NoResponse]

\* lines 15-25: the request arrives; the key check; await request.json().
\* Invocations are numbered in the order of their arrival.
GenStart(p) ==
    /\ gpc[p] = "idle"
    /\ \A q \in GenProcs : q < p => gpc[q] # "idle"
    /\ \E b \in Bodies : gReq' = [gReq EXCEPT ![p] = b]
    /\ IF MissingKey(genApiKey)
       THEN GenReturn(p, ErrorJson(500, "Missing GOOGLE_GENERATIVE_API_KEY", <<>>, 0))
       ELSE gpc' = [gpc EXCEPT ![p] = "body"] /\ UNCHANGED <<gResult, gUpstream>>
    /\ UNCHANGED <<now, ticks, genApiKey, responseCache, gKey, gCached, gCalls, gWroteAt>>
    /\ UNCHANGED <<denv, dvars, uvars>>

\* a hit that refreshes the timestamp of the entry it serves
GenBodyRefreshing(p) ==
    /\ gpc[p] = "body"
    /\ gReq' = [gReq EXCEPT ![p] = NoBody]
    /\ LET b == gReq[p]
           userText == UserText(b)
           cacheKey == ToLowerCase(userText)
           cached == CacheGet(responseCache, cacheKey)
       IN  IF b.kind = "badjson"
           THEN /\ GenReturn(p, RequestFailed("SyntaxError"))
                /\ UNCHANGED <<gKey, gCached, gCalls, responseCache>>
           ELSE IF b.kind = "nontext"
           THEN /\ GenReturn(p, RequestFailed("TypeError"))
                /\ UNCHANGED <<gKey, gCached, gCalls, responseCache>>
           ELSE IF TextMissing(b)
           THEN /\ GenReturn(p, ErrorJson(400, "Missing 'text'", <<>>, 0))
                /\ UNCHANGED <<gKey, gCached, gCalls, responseCache>>
           ELSE IF CacheFresh(cached, now)
           THEN /\ GenReturn(p, ReplyJson(cached.response))
                /\ gKey' = [gKey EXCEPT ![p] = cacheKey]
                /\ gCached' = [gCached EXCEPT ![p] = cached]
                /\ responseCache' = CacheSet(responseCache, cacheKey, cached.response, now)
                /\ UNCHANGED gCalls
           ELSE /\ gpc' = [gpc EXCEPT ![p] = "fetch"]
                /\ gKey' = [gKey EXCEPT ![p] = cacheKey]
                /\ gCached' = [gCached EXCEPT ![p] = cached]
                /\ gCalls' = [gCalls EXCEPT ![p] = @ + 1]
                /\ UNCHANGED <<gResult, gUpstream, responseCache>>
    /\ UNCHANGED <<now, ticks, genApiKey, gWroteAt>>
    /\ UNCHANGED <<denv, dvars, uvars>>

\* lines 25-68: the body has been read (and is gone from the request);
\* validation; cache check; the fetch is issued
GenBody(p) ==
    /\ gpc[p] = "body"
    /\ gReq' = [gReq EXCEPT ![p] = NoBody]
    /\ LET b == gReq[p]
           userText == UserText(b)
           cacheKey == ToLowerCase(userText)
           cached == CacheGet(responseCache, cacheKey)
       IN  IF b.kind = "badjson"
           THEN /\ GenReturn(p, RequestFailed("SyntaxError"))
                /\ UNCHANGED <<gKey, gCached, gCalls>>
           ELSE IF b.kind = "nontext"
           THEN /\ GenReturn(p, RequestFailed("TypeError"))
                /\ UNCHANGED <<gKey, gCached, gCalls>>
           ELSE IF TextMissing(b)
           THEN /\ GenReturn(p, ErrorJson(400, "Missing 'text'", <<>>, 0))
                /\ UNCHANGED <<gKey, gCached, gCalls>>
           ELSE IF CacheFresh(cached, now)
           THEN /\ GenReturn(p, ReplyJson(cached.response))
                /\ gKey' = [gKey EXCEPT ![p] = cacheKey]
                /\ gCached' = [gCached EXCEPT ![p] = cached]
                /\ UNCHANGED gCalls
           ELSE /\ gpc' = [gpc EXCEPT ![p] = "fetch"]
                /\ gKey' = [gKey EXCEPT ![p] = cacheKey]
                /\ gCached' = [gCached EXCEPT ![p] = cached]
                /\ gCalls' = [gCalls EXCEPT ![p] = @ + 1]
                /\ UNCHANGED <<gResult, gUpstream>>
    /\ UNCHANGED <<now, ticks, genApiKey, responseCache, gWroteAt>>
    /\ UNCHANGED <<denv, dvars, uvars>>

\* a non-success answer retried once
GenFetchedRetry(p) ==
    /\ gpc[p] = "fetch"
    /\ \E r \in GenResponses :
          IF r.kind = "throw"
          THEN GenReturn(p, RequestFailed("TypeError: fetch failed")) /\ UNCHANGED gCalls
          ELSE IF r.kind = "nonok" /\ gCalls[p] < 2
          THEN /\ gCalls' = [gCalls EXCEPT ![p] = @ + 1]
               /\ UNCHANGED <<gpc, gUpstream, gResult>>
          ELSE /\ gpc' = [gpc EXCEPT ![p] = IF r.kind = "ok" THEN "json" ELSE "errtext"]
               /\ gUpstream' = [gUpstream EXCEPT ![p] = r]
               /\ UNCHANGED <<gResult, gCalls>>
    /\ UNCHANGED <<now, ticks, genApiKey, responseCache, gReq, gKey, gCached, gWroteAt>>
    /\ UNCHANGED <<denv, dvars, uvars>>

\* lines 45-79: the fetch settles; on !ok await upstream.text(), else
\* await upstream.json()
GenFetched(p) ==
    /\ gpc[p] = "fetch"
    /\ \E r \in GenResponses :
          IF r.kind = "throw"
          THEN GenReturn(p, RequestFailed("TypeError: fetch failed"))
          ELSE /\ gpc' = [gpc EXCEPT ![p] = IF r.kind = "ok" THEN "json" ELSE "errtext"]
               /\ gUpstream' = [gUpstream EXCEPT ![p] = r]
               /\ UNCHANGED gResult
    /\ UNCHANGED <<now, ticks, genApiKey, responseCache, gReq, gKey, gCached, gCalls, gWroteAt>>
    /\ UNCHANGED <<denv, dvars, uvars>>

\* the failure cached like a reply
GenErrTextCaching(p) ==
    /\ gpc[p] = "errtext"
    /\ GenReturn(p, ErrorJson(502, "Gemini API error", <<gUpstream[p].body>>,
                              gUpstream[p].status))
    /\ responseCache' = CacheSet(responseCache, gKey[p], gUpstream[p].body, now)
    /\ UNCHANGED <<now, ticks, genApiKey, gReq, gKey, gCached, gCalls, gWroteAt>>
    /\ UNCHANGED <<denv, dvars, uvars>>

\* lines 70-77: the error body has been read; 502
GenErrText(p) ==
    /\ gpc[p] = "errtext"
    /\ GenReturn(p, ErrorJson(502, "Gemini API error", <<gUpstream[p].body>>,
                              gUpstream[p].status))
    /\ UNCHANGED <<now, ticks, genApiKey, responseCache, gReq, gKey, gCached, gCalls, gWroteAt>>
    /\ UNCHANGED <<denv, dvars, uvars>>

\* the write skipped when another invocation has put a fresh entry meanwhile
GenJsonFirstWriterWins(p) ==
    /\ gpc[p] = "json"
    /\ IF gUpstream[p].shape = "unparsable"
       THEN /\ GenReturn(p, RequestFailed("SyntaxError"))
            /\ UNCHANGED <<responseCache, gWroteAt>>
       ELSE LET candidateText == CandidateText(gUpstream[p])
            IN  IF CacheFresh(CacheGet(responseCache, gKey[p]), now)
                THEN /\ UNCHANGED <<responseCache, gWroteAt>>
                     /\ GenReturn(p, ReplyJson(candidateText))
                ELSE /\ responseCache' = CacheSet(responseCache, gKey[p], candidateText, now)
                     /\ gWroteAt' = [gWroteAt EXCEPT ![p] = now]
                     /\ GenReturn(p, ReplyJson(candidateText))
    /\ UNCHANGED <<now, ticks, genApiKey, gReq, gKey, gCached, gCalls>>
    /\ UNCHANGED <<denv, dvars, uvars>>

\* lines 79-96: the body has been parsed; the reply is cached and returned
GenJson(p) ==
    /\ gpc[p] = "json"
    /\ IF gUpstream[p].shape = "unparsable"
       THEN /\ GenReturn(p, RequestFailed("SyntaxError"))
            /\ UNCHANGED <<responseCache, gWroteAt>>
       ELSE LET candidateText == CandidateText(gUpstream[p])
            IN  /\ responseCache' = CacheSet(responseCache, gKey[p], candidateText, now)
                /\ gWroteAt' = [gWroteAt EXCEPT ![p] = now]
                /\ GenReturn(p, ReplyJson(candidateText))
    /\ UNCHANGED <<now, ticks, genApiKey, gReq, gKey, gCached, gCalls>>
    /\ UNCHANGED <<denv, dvars, uvars>>

\* the clock of the gemini runs, observed from the first invocation on
GenTick ==
    /\ \E p \in GenProcs : gpc[p] # "idle"
    /\ ticks < MaxTicks
    /\ \E d \in GenTickSteps : now' = now + d
    /\ ticks' = ticks + 1
    /\ UNCHANGED <<gvars, denv, dvars, uvars>>

GenNext ==
    \/ \E p \in GenProcs : GenStart(p)
    \/ \E p \in GenProcs : GenBody(p)
    \/ \E p \in GenProcs : GenFetched(p)
    \/ \E p \in GenProcs : GenErrText(p)
    \/ \E p \in GenProcs : GenJson(p)
    \/ GenTick

\* runs of the gemini handler alone (the talk handler is not configured)
InitGen == Init /\ didApiKeyEnv = <<>> /\ didPublicKeyEnv = <<>> /\ didBasicAuthEnv = <<>>

SpecGen == InitGen /\ [][GenNext]_vars

\* --------------------------------------------------- talk handler, POST
DidReturn(p, res) ==
    /\ dpc' = [dpc EXCEPT ![p] = "done"]
    /\ dResult' = [dResult EXCEPT ![p] = res]
    /\ dOut' = [dOut EXCEPT ![p] = NoOut]

\* the request of the first tier fired, unawaited, while the body is read
DidStartPrefetch(p) ==
    /\ dpc[p] = "idle"
    /\ \A q \in DidProcs : q < p => dpc[q] # "idle"
    /\ \E b \in Bodies : dReq' = [dReq EXCEPT ![p] = b]
    /\ LET studioApiKey == Or(didApiKeyEnv, didPublicKeyEnv)
           basicAuth == didBasicAuthEnv
       IN  IF studioApiKey = <<>> /\ basicAuth = <<>>
           THEN /\ DidReturn(p, DidErrorJson(500, "Missing D-ID credentials",
                                 <<"Set DID_API_KEY or DID_BASIC_AUTH">>, "", ""))
                /\ UNCHANGED dAuth
           ELSE /\ dpc' = [dpc EXCEPT ![p] = "body"]
                /\ dAuth' = [dAuth EXCEPT ![p] =
                                [studioApiKey |-> studioApiKey, basicAuth |-> basicAuth]]
                /\ dOut' = [dOut EXCEPT ![p] = CreateRequest(0, NoHeaders)]
                /\ UNCHANGED dResult
    /\ UNCHANGED <<uvars, now, ticks, gvars, denv, dSub, dId, dStartedAt, dLastStatus, dS,
                   dWakeAt, dRes, dErr, dFirstReqAt>>

\* lines 130-143: the request arrives; the credentials check; await
\* request.json().  Invocations are numbered in the order of their arrival.
DidStart(p) ==
    /\ dpc[p] = "idle"
    /\ \A q \in DidProcs : q < p => dpc[q] # "idle"
    /\ \E b \in Bodies : dReq' = [dReq EXCEPT ![p] = b]
    /\ LET studioApiKey == Or(didApiKeyEnv, didPublicKeyEnv)
           basicAuth == didBasicAuthEnv
       IN  IF studioApiKey = <<>> /\ basicAuth = <<>>
           THEN /\ DidReturn(p, DidErrorJson(500, "Missing D-ID credentials",
                                 <<"Set DID_API_KEY or DID_BASIC_AUTH">>, "", ""))
                /\ UNCHANGED dAuth
           ELSE /\ dpc' = [dpc EXCEPT ![p] = "body"]
                /\ dAuth' = [dAuth EXCEPT ![p] =
                                [studioApiKey |-> studioApiKey, basicAuth |-> basicAuth]]
                /\ UNCHANGED <<dResult, dOut>>
    /\ UNCHANGED <<uvars, now, ticks, gvars, denv, dSub, dId, dStartedAt, dLastStatus, dS,
                   dWakeAt, dRes, dErr, dFirstReqAt>>

\* lines 143-156 and 40-75: the body has been read; validation; createTalk
\* issues the request of the first tier
DidBody(p) ==
    /\ dpc[p] = "body"
    /\ dReq' = [dReq EXCEPT ![p] = NoBody]
    /\ LET b == dReq[p]
       IN  IF b.kind = "badjson"
           THEN DidReturn(p, DidFailed("SyntaxError")) /\ UNCHANGED dFirstReqAt
           ELSE IF b.kind = "nontext"
           THEN DidReturn(p, DidFailed("TypeError")) /\ UNCHANGED dFirstReqAt
           ELSE IF TextMissing(b)
           THEN /\ DidReturn(p, DidErrorJson(400, "Missing 'text'", <<>>, "", ""))
                /\ UNCHANGED dFirstReqAt
           ELSE /\ dpc' = [dpc EXCEPT ![p] = "create"]
                /\ dOut' = [dOut EXCEPT ![p] = CreateRequest(0, buildAuthHeaders(dAuth[p]))]
                /\ dFirstReqAt' = [dFirstReqAt EXCEPT ![p] = now]
                /\ UNCHANGED dResult
    /\ UNCHANGED <<uvars, now, ticks, gvars, denv, dAuth, dSub, dId, dStartedAt,
                   dLastStatus, dS, dWakeAt, dRes, dErr>>

\* the loop condition reversed: the loop is left while the time limit has
\* not been used up
DidLoopHeadReversed(p, startedAt, id, lastStatus) ==
    IF now - startedAt >= timeoutMs
    THEN /\ dpc' = [dpc EXCEPT ![p] = "status1"]
         /\ dOut' = [dOut EXCEPT ![p] = StatusRequest("v1", dAuth[p], id)]
         /\ UNCHANGED dResult
    ELSE DidReturn(p, DidErrorJson(504, "Timeout waiting for video", <<>>, id, lastStatus))

\* the timeout reported without the last observed status
DidLoopHeadNoStatus(p, startedAt, id, lastStatus) ==
    IF now - startedAt < timeoutMs
    THEN /\ dpc' = [dpc EXCEPT ![p] = "status1"]
         /\ dOut' = [dOut EXCEPT ![p] = StatusRequest("v1", dAuth[p], id)]
         /\ UNCHANGED dResult
    ELSE DidReturn(p, DidErrorJson(504, "Timeout waiting for video", <<>>, id, ""))

\* lines 165-166 and 181-186: the head of the poll loop, entered at time
\* startedAt + elapsed: the next status request, or the timeout
DidLoopHead(p, startedAt, id, lastStatus) ==
    IF now - startedAt < timeoutMs
    THEN /\ dpc' = [dpc EXCEPT ![p] = "status1"]
         /\ dOut' = [dOut EXCEPT ![p] = StatusRequest("v1", dAuth[p], id)]
         /\ UNCHANGED dResult
    ELSE DidReturn(p, DidErrorJson(504, "Timeout waiting for video", <<>>, id, lastStatus))

\* what the settling of a fetch shows of a response: it was rejected
\* ("throw"), or res.ok is false ("nonok") or true ("ok"); whether the body
\* parses shows when it is read
Settled(r) == IF r.kind = "unparsable" THEN "ok" ELSE r.kind

\* a tier whose request fails at transport level treated as a failed tier:
\* the cascade goes on to the next one
DidCreatedThrowAdvances(p) ==
    /\ dpc[p] = "create"
    /\ \E r \in CreateResponses :
          LET n == Len(dSub[p])
              tier == [endpoint |-> dOut[p].endpoint, payload |-> dOut[p].payload,
                       kind |-> Settled(r), body |-> ""]
          IN  /\ dSub' = [dSub EXCEPT ![p] = Append(@, tier)]
              /\ dRes' = [dRes EXCEPT ![p] = Settled(r)]
              /\ IF r.kind = "throw"
                 THEN IF n < 3
                      THEN /\ dOut' = [dOut EXCEPT ![p] =
                                         CreateRequest(n + 1, dOut[p].headers)]
                           /\ UNCHANGED <<dpc, dResult>>
                      ELSE DidReturn(p, createTalkError("", ""))
                 ELSE /\ dpc' = [dpc EXCEPT ![p] = "createRead"]
                      /\ dOut' = [dOut EXCEPT ![p] = NoOut]
                      /\ UNCHANGED dResult
    /\ UNCHANGED <<uvars, now, ticks, gvars, denv, dReq, dAuth, dId, dStartedAt,
                   dLastStatus, dS, dWakeAt, dErr, dFirstReqAt>>

\* lines 75, 80, 85, 90: the fetch of a tier settles; a rejection is thrown
\* to the catch block, otherwise the body of the response is awaited
\* (res.text() when !res.ok, res.json() otherwise)
DidCreated(p) ==
    /\ dpc[p] = "create"
    /\ \E r \in CreateResponses :
          LET tier == [endpoint |-> dOut[p].endpoint, payload |-> dOut[p].payload,
                       kind |-> Settled(r), body |-> ""]
          IN  /\ dSub' = [dSub EXCEPT ![p] = Append(@, tier)]
              /\ dRes' = [dRes EXCEPT ![p] = Settled(r)]
              /\ IF r.kind = "throw"
                 THEN DidReturn(p, DidFailed("TypeError: fetch failed"))
                 ELSE /\ dpc' = [dpc EXCEPT ![p] = "createRead"]
                      /\ dOut' = [dOut EXCEPT ![p] = NoOut]
                      /\ UNCHANGED dResult
    /\ UNCHANGED <<uvars, now, ticks, gvars, denv, dReq, dAuth, dId, dStartedAt,
                   dLastStatus, dS, dWakeAt, dErr, dFirstReqAt>>

\* lines 77-94, 104 and 156-166: the body of the response of a tier has been
\* read: the text of a failed tier, then the request of the next tier or the
\* error of the last; or the parsed { id }, then startedAt and the head of
\* the poll loop
DidCreateRead(p) ==
    /\ dpc[p] = "createRead"
    /\ \E r \in CreateResponses :
          LET n == Len(dSub[p])
          IN  /\ Settled(r) = dRes[p]
              /\ dSub' = [dSub EXCEPT ![p][n].kind = r.kind, ![p][n].body = r.body]
              /\ dRes' = [dRes EXCEPT ![p] = r.kind]
              /\ IF r.kind = "nonok"
                 THEN /\ IF n < 4
                         THEN /\ dpc' = [dpc EXCEPT ![p] = "create"]
                              /\ dOut' = [dOut EXCEPT ![p] =
                                            CreateRequest(n, buildAuthHeaders(dAuth[p]))]
                              /\ UNCHANGED dResult
                         ELSE /\ DidReturn(p, createTalkError(dSub[p][1].body, r.body))
                      /\ UNCHANGED <<dId, dStartedAt>>
                 ELSE IF r.kind = "unparsable"
                 THEN /\ DidReturn(p, DidFailed("SyntaxError"))
                      /\ UNCHANGED <<dId, dStartedAt>>
                 ELSE /\ dId' = [dId EXCEPT ![p] = r.body]
                      /\ dStartedAt' = [dStartedAt EXCEPT ![p] = now]
                      /\ DidLoopHead(p, now, r.body, "")
    /\ UNCHANGED <<uvars, now, ticks, gvars, denv, dReq, dAuth, dLastStatus, dS, dWakeAt,
                   dErr, dFirstReqAt>>

\* the deadline tested again when the poll response arrives: a response that
\* comes after it is dropped
DidHandleStatusDeadline(p, s) ==
    /\ dS' = [dS EXCEPT ![p] = s]
    /\ dLastStatus' = [dLastStatus EXCEPT ![p] = s.status]
    /\ IF now - dStartedAt[p] >= timeoutMs
       THEN /\ DidReturn(p, DidErrorJson(504, "Timeout waiting for video", <<>>,
                                         dId[p], s.status))
            /\ UNCHANGED dWakeAt
       ELSE IF s.status = "done" /\ s.result_url # ""
       THEN /\ DidReturn(p, DidVideoJson(dId[p], s.result_url))
            /\ UNCHANGED dWakeAt
       ELSE IF s.status = "error"
       THEN /\ DidReturn(p, DidErrorJson(502, "D-ID processing error",
                                         <<s.error>>, dId[p], ""))
            /\ UNCHANGED dWakeAt
       ELSE /\ dpc' = [dpc EXCEPT ![p] = "sleep"]
            /\ dOut' = [dOut EXCEPT ![p] = NoOut]
            /\ dWakeAt' = [dWakeAt EXCEPT ![p] = now + intervalMs]
            /\ UNCHANGED dResult

\* a status other than "pending", "done" and "error" reported as a failure
DidHandleStatusStrict(p, s) ==
    /\ dS' = [dS EXCEPT ![p] = s]
    /\ dLastStatus' = [dLastStatus EXCEPT ![p] = s.status]
    /\ IF s.status = "done" /\ s.result_url # ""
       THEN /\ DidReturn(p, DidVideoJson(dId[p], s.result_url))
            /\ UNCHANGED dWakeAt
       ELSE IF s.status \notin {"pending", "done"}
       THEN /\ DidReturn(p, DidErrorJson(502, "D-ID processing error",
                                         <<s.error>>, dId[p], ""))
            /\ UNCHANGED dWakeAt
       ELSE /\ dpc' = [dpc EXCEPT ![p] = "sleep"]
            /\ dOut' = [dOut EXCEPT ![p] = NoOut]
            /\ dWakeAt' = [dWakeAt EXCEPT ![p] = now + intervalMs]
            /\ UNCHANGED dResult

\* "done" taken as success whether or not it carries a result_url
DidHandleStatusAnyDone(p, s) ==
    /\ dS' = [dS EXCEPT ![p] = s]
    /\ dLastStatus' = [dLastStatus EXCEPT ![p] = s.status]
    /\ IF s.status = "done"
       THEN /\ DidReturn(p, DidVideoJson(dId[p], s.result_url))
            /\ UNCHANGED dWakeAt
       ELSE IF s.status = "error"
       THEN /\ DidReturn(p, DidErrorJson(502, "D-ID processing error",
                                         <<s.error>>, dId[p], ""))
            /\ UNCHANGED dWakeAt
       ELSE /\ dpc' = [dpc EXCEPT ![p] = "sleep"]
            /\ dOut' = [dOut EXCEPT ![p] = NoOut]
            /\ dWakeAt' = [dWakeAt EXCEPT ![p] = now + intervalMs]
            /\ UNCHANGED dResult

\* status "error" not tested: the loop sleeps and polls again
DidHandleStatusNoFailFast(p, s) ==
    /\ dS' = [dS EXCEPT ![p] = s]
    /\ dLastStatus' = [dLastStatus EXCEPT ![p] = s.status]
    /\ IF s.status = "done" /\ s.result_url # ""
       THEN /\ DidReturn(p, DidVideoJson(dId[p], s.result_url))
            /\ UNCHANGED dWakeAt
       ELSE /\ dpc' = [dpc EXCEPT ![p] = "sleep"]
            /\ dOut' = [dOut EXCEPT ![p] = NoOut]
            /\ dWakeAt' = [dWakeAt EXCEPT ![p] = now + intervalMs]
            /\ UNCHANGED dResult

\* lines 167-178: the poll response s is acted upon
DidHandleStatus(p, s) ==
    /\ dS' = [dS EXCEPT ![p] = s]
    /\ dLastStatus' = [dLastStatus EXCEPT ![p] = s.status]
    /\ IF s.status = "done" /\ s.result_url # ""
       THEN /\ DidReturn(p, DidVideoJson(dId[p], s.result_url))
            /\ UNCHANGED dWakeAt
       ELSE IF s.status = "error"
       THEN /\ DidReturn(p, DidErrorJson(502, "D-ID processing error",
                                         <<s.error>>, dId[p], ""))
            /\ UNCHANGED dWakeAt
       ELSE /\ dpc' = [dpc EXCEPT ![p] = "sleep"]
            /\ dOut' = [dOut EXCEPT ![p] = NoOut]
            /\ dWakeAt' = [dWakeAt EXCEPT ![p] = now + intervalMs]
            /\ UNCHANGED dResult

\* a non-success answer of the legacy path retried on the primary path
DidStatusReadRetryForever(p) ==
    /\ dpc[p] \in {"read1", "read2"}
    /\ \E r \in StatusResponses :
          /\ Settled(r) = dRes[p]
          /\ dRes' = [dRes EXCEPT ![p] = r.kind]
          /\ dErr' = [dErr EXCEPT ![p] = IF r.kind = "nonok" THEN r.body ELSE ""]
          /\ IF r.kind = "nonok"
             THEN /\ IF dpc[p] = "read1"
                     THEN /\ dpc' = [dpc EXCEPT ![p] = "status2"]
                          /\ dOut' = [dOut EXCEPT ![p] =
                                        StatusRequest("legacy", dAuth[p], dId[p])]
                     ELSE /\ dpc' = [dpc EXCEPT ![p] = "status1"]
                          /\ dOut' = [dOut EXCEPT ![p] =
                                        StatusRequest("v1", dAuth[p], dId[p])]
                  /\ UNCHANGED dResult
                  /\ UNCHANGED <<dLastStatus, dS, dWakeAt>>
             ELSE IF r.kind = "unparsable"
             THEN /\ DidReturn(p, DidFailed("SyntaxError"))
                  /\ UNCHANGED <<dLastStatus, dS, dWakeAt>>
             ELSE DidHandleStatus(p, [status |-> r.status, result_url |-> r.result_url,
                                      error |-> r.error])
    /\ UNCHANGED <<uvars, now, ticks, gvars, denv, dReq, dAuth, dSub, dId, dStartedAt,
                   dFirstReqAt>>

\* no fallback: a non-success answer of the primary path is thrown at once
DidStatusReadNoFallback(p) ==
    /\ dpc[p] \in {"read1", "read2"}
    /\ \E r \in StatusResponses :
          /\ Settled(r) = dRes[p]
          /\ dRes' = [dRes EXCEPT ![p] = r.kind]
          /\ dErr' = [dErr EXCEPT ![p] = IF r.kind = "nonok" THEN r.body ELSE ""]
          /\ IF r.kind = "nonok"
             THEN /\ DidReturn(p, DidThrown("D-ID status error: ", r.body))
                  /\ UNCHANGED <<dLastStatus, dS, dWakeAt>>
             ELSE IF r.kind = "unparsable"
             THEN /\ DidReturn(p, DidFailed("SyntaxError"))
                  /\ UNCHANGED <<dLastStatus, dS, dWakeAt>>
             ELSE DidHandleStatus(p, [status |-> r.status, result_url |-> r.result_url,
                                      error |-> r.error])
    /\ UNCHANGED <<uvars, now, ticks, gvars, denv, dReq, dAuth, dSub, dId, dStartedAt,
                   dFirstReqAt>>

\* the error thrown with the text of the primary response, read first
DidStatusReadFirstBody(p) ==
    /\ dpc[p] \in {"read1", "read2"}
    /\ \E r \in StatusResponses :
          /\ Settled(r) = dRes[p]
          /\ dRes' = [dRes EXCEPT ![p] = r.kind]
          /\ dErr' = [dErr EXCEPT ![p] = IF r.kind = "nonok" THEN r.body ELSE ""]
          /\ IF r.kind = "nonok"
             THEN /\ IF dpc[p] = "read1"
                     THEN /\ dpc' = [dpc EXCEPT ![p] = "status2"]
                          /\ dOut' = [dOut EXCEPT ![p] =
                                        StatusRequest("legacy", dAuth[p], dId[p])]
                          /\ UNCHANGED dResult
                     ELSE DidReturn(p, DidThrown("D-ID status error: ", dErr[p]))
                  /\ UNCHANGED <<dLastStatus, dS, dWakeAt>>
             ELSE IF r.kind = "unparsable"
             THEN /\ DidReturn(p, DidFailed("SyntaxError"))
                  /\ UNCHANGED <<dLastStatus, dS, dWakeAt>>
             ELSE DidHandleStatus(p, [status |-> r.status, result_url |-> r.result_url,
                                      error |-> r.error])
    /\ UNCHANGED <<uvars, now, ticks, gvars, denv, dReq, dAuth, dSub, dId, dStartedAt,
                   dFirstReqAt>>

\* lines 108 and 114: the fetch of a status request settles; a rejection is
\* thrown to the catch block, otherwise the body of the response is awaited
\* (res.text() when !res.ok, res.json() otherwise)
DidPolled(p) ==
    /\ dpc[p] \in {"status1", "status2"}
    /\ \E r \in StatusResponses :
          /\ dRes' = [dRes EXCEPT ![p] = Settled(r)]
          /\ IF r.kind = "throw"
             THEN DidReturn(p, DidFailed("TypeError: fetch failed"))
             ELSE /\ dpc' = [dpc EXCEPT ![p] = IF dpc[p] = "status1" THEN "read1"
                                               ELSE "read2"]
                  /\ dOut' = [dOut EXCEPT ![p] = NoOut]
                  /\ UNCHANGED dResult
    /\ UNCHANGED <<uvars, now, ticks, gvars, denv, dReq, dAuth, dSub, dId, dStartedAt,
                   dLastStatus, dS, dWakeAt, dErr, dFirstReqAt>>

\* lines 112-122 and 166-178: the body of a status response has been read:
\* the text of a non-success response, then the legacy request or the error
\* thrown; or the parsed status, acted upon
DidStatusRead(p) ==
    /\ dpc[p] \in {"read1", "read2"}
    /\ \E r \in StatusResponses :
          /\ Settled(r) = dRes[p]
          /\ dRes' = [dRes EXCEPT ![p] = r.kind]
          /\ dErr' = [dErr EXCEPT ![p] = IF r.kind = "nonok" THEN r.body ELSE ""]
          /\ IF r.kind = "nonok"
             THEN /\ IF dpc[p] = "read1"
                     THEN /\ dpc' = [dpc EXCEPT ![p] = "status2"]
                          /\ dOut' = [dOut EXCEPT ![p] =
                                        StatusRequest("legacy", dAuth[p], dId[p])]
                          /\ UNCHANGED dResult
                     ELSE DidReturn(p, DidThrown("D-ID status error: ", r.body))
                  /\ UNCHANGED <<dLastStatus, dS, dWakeAt>>
             ELSE IF r.kind = "unparsable"
             THEN /\ DidReturn(p, DidFailed("SyntaxError"))
                  /\ UNCHANGED <<dLastStatus, dS, dWakeAt>>
             ELSE DidHandleStatus(p, [status |-> r.status, result_url |-> r.result_url,
                                      error |-> r.error])
    /\ UNCHANGED <<uvars, now, ticks, gvars, denv, dReq, dAuth, dSub, dId, dStartedAt,
                   dFirstReqAt>>

\* one startedAt shared by the invocations: that of the first of them
DidWakeSharedClock(p) ==
    /\ dpc[p] = "sleep"
    /\ now >= dWakeAt[p]
    /\ dWakeAt' = [dWakeAt EXCEPT ![p] = -1]
    /\ DidLoopHead(p, dStartedAt[1], dId[p], dLastStatus[p])
    /\ UNCHANGED <<uvars, now, ticks, gvars, denv, dReq, dAuth, dSub, dId, dStartedAt,
                   dLastStatus, dS, dRes, dErr, dFirstReqAt>>

\* the loop resumed without waiting for the timer
DidWakeEarly(p) ==
    /\ dpc[p] = "sleep"
    /\ dWakeAt' = [dWakeAt EXCEPT ![p] = -1]
    /\ DidLoopHead(p, dStartedAt[p], dId[p], dLastStatus[p])
    /\ UNCHANGED <<uvars, now, ticks, gvars, denv, dReq, dAuth, dSub, dId, dStartedAt,
                   dLastStatus, dS, dRes, dErr, dFirstReqAt>>

\* lines 178 and 165: the timer fires, at its time or later; back to the
\* head of the loop
DidWake(p) ==
    /\ dpc[p] = "sleep"
    /\ now >= dWakeAt[p]
    /\ dWakeAt' = [dWakeAt EXCEPT ![p] = -1]
    /\ DidLoopHead(p, dStartedAt[p], dId[p], dLastStatus[p])
    /\ UNCHANGED <<uvars, now, ticks, gvars, denv, dReq, dAuth, dSub, dId, dStartedAt,
                   dLastStatus, dS, dRes, dErr, dFirstReqAt>>

\* the clock of the talk runs, observed while an invocation has a request
\* in flight, reads a response or sleeps (no time is read or spent on a timer before that);
\* it is followed up to the bound, and beyond it as far as a pending timer;
\* a timer fires at its time or up to MaxLateTicks later
DidTick ==
    /\ \E d \in DidTickSteps :
          /\ \/ now + d <= MaxDidTicks * intervalMs
             \/ \E p \in DidProcs : dpc[p] = "sleep" /\ now < dWakeAt[p]
          /\ \E p \in DidProcs : dpc[p] \notin {"idle", "off", "body", "done"}
          /\ \A p \in DidProcs :
                dpc[p] \in {"create", "createRead"}
                => now + d <= MaxCreateTicks * intervalMs
          /\ \A p \in DidProcs :
                dpc[p] = "sleep" => now + d <= dWakeAt[p] + MaxLateTicks * intervalMs
          /\ now' = now + d
    /\ UNCHANGED <<ticks, gvars, denv, dvars, uvars>>

DidNext ==
    \/ \E p \in DidProcs : DidStart(p)
    \/ \E p \in DidProcs : DidBody(p)
    \/ \E p \in DidProcs : DidCreated(p)
    \/ \E p \in DidProcs : DidCreateRead(p)
    \/ \E p \in DidProcs : DidPolled(p)
    \/ \E p \in DidProcs : DidStatusRead(p)
    \/ \E p \in DidProcs : DidWake(p)
    \/ DidTick

\* runs of the talk handler alone (the gemini handler is not configured)
InitDid == Init /\ genApiKey = ""

\* ... over the first polls of the loop, under every configuration of the
\* credentials
ShortStep == now' <= MaxShortTicks * intervalMs

SpecDid == InitDid /\ [][DidNext /\ ShortStep]_vars

\* runs of the talk handler up to the deadline of the poll loop and past it,
\* with DID_API_KEY configured
InitDidLong ==
    InitDid /\ didApiKeyEnv = <<"k">> /\ didPublicKeyEnv = <<>> /\ didBasicAuthEnv = <<>>

SpecDidLong == InitDidLong /\ [][DidNext]_vars

\* runs of the talk handler in which what an invocation awaits happens: the
\* request body is delivered, every outbound request is answered, every
\* response body is read to its end, the timer
\* fires, and the clock advances; one credential configuration and the
\* unconfigured handler
InitDidFair ==
    InitDid /\ didApiKeyEnv \in DidKeys /\ didPublicKeyEnv = <<>> /\ didBasicAuthEnv = <<>>

DidFairness ==
    /\ WF_vars(DidTick)
    /\ \A p \in DidProcs :
          /\ WF_vars(DidBody(p))
          /\ WF_vars(DidCreated(p))
          /\ WF_vars(DidCreateRead(p))
          /\ WF_vars(DidPolled(p))
          /\ WF_vars(DidStatusRead(p))
          /\ WF_vars(DidWake(p))

\* ... and the answers of the submission cascade come before the clock has
\* moved on (startedAt is read after them: line 160)
FairStep == now' # now => \A p \in DidProcs : dpc[p] \notin {"create", "createRead"}

SpecDidFair == InitDidFair /\ [][DidNext /\ FairStep]_vars /\ DidFairness


\* runs of two concurrent invocations of the talk handler, in the scenario
\* where both requests carry the text "a", every outbound request is
\* answered with a success status and a body that parses, the upstream
\* gives the two submissions the ids job1 and job2, the job is
\* reported pending, done (with its url) or failed, the body of a response
\* is read before the clock has moved on, and timers fire on time
InitDidPair ==
    /\ now = 0
    /\ ticks = 0
    /\ GenInit /\ genApiKey = ""
    /\ didApiKeyEnv = <<"k">> /\ didPublicKeyEnv = <<>> /\ didBasicAuthEnv = <<>>
    /\ dpc = [p \in DidProcs |-> "idle"]
    /\ DidInitLocals
    /\ UiInit

PairStep ==
    /\ \A p \in DidProcs :
          /\ dReq'[p] \in {NoBody, [kind |-> "json", hasText |-> TRUE, text |-> <<"a">>]}
          /\ dRes'[p] \in {"none", "ok"}
          /\ dId'[p] \in {"", IF p = 1 THEN "job1" ELSE "job2"}
          /\ dS'[p] \in {NoStatus,
                         [status |-> "pending", result_url |-> "", error |-> ""],
                         [status |-> "done", result_url |-> "url1", error |-> ""],
                         [status |-> "error", result_url |-> "", error |-> "failed"]}
    /\ now' # now => \A p \in DidProcs :
                         /\ dpc[p] = "sleep" => now < dWakeAt[p]
                         /\ dpc[p] \notin {"createRead", "read1", "read2"}

SpecDidPair == InitDidPair /\ [][DidNext /\ PairStep]_vars

\* ------------------------------------------- the page: listening sessions
\* A handler or callback created during a render closes over the values the
\* state had at that render: c.interactiveMode and c.isListening are what
\* the code of the closure reads as interactiveMode and isListening.
Render == [interactiveMode |-> interactiveMode, isListening |-> isListening]

\* the page as a record, for the functions below
Ui ==
    [interactiveMode |-> interactiveMode, isListening |-> isListening,
     recognition |-> recognition, handlers |-> handlers, pending |-> pending,
     utterance |-> utterance, last |-> NoEffect]

\* setTimeout(callback, delay): the callback kind closes over c; tracked
\* when the code adds its id to timeoutRefs
SetTimeout(u, kind, delay, c, tracked) ==
    [u EXCEPT !.pending = Append(@, [kind |-> kind, left |-> delay, c |-> c,
                                     tracked |-> tracked])]

\* timeoutRefs.current.forEach(clearTimeout); timeoutRefs.current.clear()
ClearTimeouts(u) ==
    [u EXCEPT !.pending = SelectSeq(@, LAMBDA t : ~t.tracked)]

\* rec.stop(): a session that is on goes on to its end event
RecStop(u) ==
    [u EXCEPT !.recognition = IF @ = "on" THEN "ending" ELSE @]

\* rec.stop(); rec.abort(): the session is aborted, its end event follows
RecAbort(u) ==
    [u EXCEPT !.recognition = IF @ \in {"on", "ending"} THEN "aborting" ELSE @]

\* speechSynthesis.cancel(): the utterance being spoken is interrupted; what
\* the browser then reports to its callbacks is still to come
SpeechCancel(u) ==
    IF u.utterance.speaking
    THEN [u EXCEPT !.utterance = NoUtterance,
                   !.pending = Append(@, [kind |-> "cancelled", left |-> 0,
                                          c |-> u.utterance.c, tracked |-> FALSE])]
    ELSE u

\* rec.start(): starts a session, or throws when the last one has not ended
RecStartThrows(u) == u.recognition # "off"

\* lines 455-493
startListening(u, c) ==
    IF c.isListening
    THEN u
    ELSE LET u1 == [u EXCEPT !.isListening = TRUE,
                             !.handlers = [kind |-> "plain", c |-> c,
                                           finalTranscript |-> FALSE],
                             !.last.start = "plain"]
         IN  IF RecStartThrows(u1)
             THEN [u1 EXCEPT !.last.busy = TRUE]
             ELSE [u1 EXCEPT !.recognition = "on"]

\* lines 495-519
stopListening(u) ==
    SpeechCancel([ClearTimeouts(RecAbort(u)) EXCEPT !.isListening = FALSE])

\* lines 521-541 and 599: the part that runs at once
startInteractiveListening(u, c) ==
    LET u1 == RecStop(u)
    IN  IF c.isListening
        THEN u1
        ELSE SetTimeout(u1, "start", StartDelay, c, FALSE)

\* lines 542-599: the callback of the 100 ms timer
StartCallback(u, c) ==
    IF ~c.interactiveMode THEN u
    ELSE IF c.isListening THEN u
    ELSE LET u1 == [u EXCEPT !.isListening = TRUE,
                             !.handlers = [kind |-> "interactive", c |-> c,
                                           finalTranscript |-> FALSE],
                             !.last.start = "interactive"]
         IN  IF RecStartThrows(u1)
             THEN LET u2 == [u1 EXCEPT !.isListening = FALSE, !.last.busy = TRUE]
                  IN  IF c.interactiveMode /\ ~c.isListening
                      THEN SetTimeout(u2, "restart", RetryDelay, c, TRUE)
                      ELSE u2
             ELSE [u1 EXCEPT !.recognition = "on"]

\* lines 420-429, 432-440, 563-570, 590-597: the callback of a restart timer
RestartCallback(u, c) ==
    LET u1 == [u EXCEPT !.last.restart = TRUE]
    IN  IF c.interactiveMode /\ ~c.isListening
        THEN startInteractiveListening(u1, c)
        ELSE u1

\* lines 366-389, called with autoSpeak: the request to /api/gemini goes out
processUserInput(u, c) ==
    [u EXCEPT !.pending = Append(@, [kind |-> "fetch", left |-> 0, c |-> c,
                                     tracked |-> FALSE])]

\* lines 390-452: the body of the answer has been read; a reply is to be
\* spoken, a failure (a body that does not parse, or !res.ok) only shown
Replied(u, c, ok) ==
    IF ok THEN SetTimeout(u, "speak", SpeakDelay, c, FALSE) ELSE u

\* lines 404-444: the callback of the 200 ms timer speaks the reply
SpeakCallback(u, c) ==
    LET u1 == SpeechCancel(u)
    IN  [u1 EXCEPT !.utterance = [speaking |-> TRUE, c |-> c], !.last.spoke = TRUE]

\* lines 419-429: utterance.onend
UtteranceEnd(u, c) ==
    IF c.interactiveMode /\ ~c.isListening
    THEN SetTimeout(u, "restart", AfterSpeechDelay, c, TRUE)
    ELSE u

\* lines 431-441: utterance.onerror
UtteranceError(u, c) ==
    IF c.interactiveMode /\ ~c.isListening
    THEN SetTimeout(u, "restart", AfterSpeechErrorDelay, c, TRUE)
    ELSE u

\* rec.onresult with a final result: lines 466-474 and 550-555
OnResult(u) ==
    IF u.handlers.kind = "none" THEN u
    ELSE [u EXCEPT !.handlers.finalTranscript = TRUE]

\* rec.onerror: lines 476-479 and 557-572
OnError(u, code) ==
    IF u.handlers.kind = "none" THEN u
    ELSE LET u1 == [u EXCEPT !.isListening = FALSE]
             c == u.handlers.c
         IN  IF /\ u.handlers.kind = "interactive"
                /\ code \in {"no-speech", "audio-capture", "not-allowed"}
                /\ c.interactiveMode /\ ~c.isListening
             THEN SetTimeout(u1, "restart", AfterErrorDelay, c, TRUE)
             ELSE u1

\* rec.onend: lines 481-488 and 574-582
OnEnd(u) ==
    IF u.handlers.kind = "none" THEN u
    ELSE LET u1 == [u EXCEPT !.isListening = FALSE]
         IN  IF u.handlers.kind = "interactive" /\ u.handlers.finalTranscript
             THEN processUserInput(u1, u.handlers.c)
             ELSE u1

\* lines 642-678, and the branch of the button that stops the message,
\* lines 883-887: both call speechSynthesis.cancel(); the utterance that
\* speakMessage speaks has callbacks that set isSpeaking and
\* speakingMessageId only
speakMessage(u) == SpeechCancel(u)

\* lines 603-630, and the close button, lines 1019-1046
CloseInteractiveMode(u) ==
    [ClearTimeouts(SpeechCancel(RecAbort(u)))
        EXCEPT !.interactiveMode = FALSE, !.isListening = FALSE]

\* lines 602-640
toggleInteractiveMode(u, c) ==
    IF c.interactiveMode
    THEN CloseInteractiveMode(u)
    ELSE [u EXCEPT !.interactiveMode = TRUE, !.isListening = FALSE]

\* the page after a handler or callback has run and the component has been
\* rendered again; a step that would leave more than MaxPending callbacks
\* pending is not followed
SetUi(u) ==
    /\ Len(u.pending) <= MaxPending
    /\ interactiveMode' = u.interactiveMode
    /\ isListening' = u.isListening
    /\ recognition' = u.recognition
    /\ handlers' = u.handlers
    /\ pending' = u.pending
    /\ utterance' = u.utterance
    /\ last' = u.last
    /\ UNCHANGED <<now, ticks, gvars, denv, dvars>>

\* pending without its i-th element
Without(q, i) == SubSeq(q, 1, i - 1) \o SubSeq(q, i + 1, Len(q))

IsTimer(t) == t.kind \in {"start", "speak", "restart"}

\* line 1136-1142: the voice-to-text button
ClickMic ==
    \E c \in {Render} :
        SetUi(IF c.isListening /\ ~c.interactiveMode
              THEN stopListening(Ui)
              ELSE startListening(Ui, c))

\* line 1158: the AI Interactive button
ClickToggle ==
    \E c \in {Render} : SetUi(toggleInteractiveMode(Ui, c))

\* lines 1001-1008: the Start/Stop Listening button of the popup
ClickPopupListen ==
    /\ interactiveMode
    /\ \E c \in {Render} :
          SetUi(IF c.isListening
                THEN stopListening(Ui)
                ELSE startInteractiveListening(Ui, c))

\* lines 1018-1047: the close button of the popup
ClickPopupClose ==
    /\ interactiveMode
    /\ SetUi(CloseInteractiveMode(Ui))

\* lines 881-892: the speaker button of a message of the chat (a message is
\* there as soon as a text has been typed and sent)
ClickSpeaker ==
    \E c \in {Render} : SetUi(speakMessage(Ui))

\* the timer that is due fires: of the timers whose time has come, the one
\* set first
TimerFires ==
    \E i \in 1..Len(pending) :
        /\ IsTimer(pending[i])
        /\ pending[i].left = 0
        /\ \A j \in 1..(i - 1) : ~(IsTimer(pending[j]) /\ pending[j].left = 0)
        /\ LET t == pending[i]
               u == [Ui EXCEPT !.pending = Without(pending, i)]
           IN  SetUi(CASE t.kind = "start" -> StartCallback(u, t.c)
                       [] t.kind = "speak" -> SpeakCallback(u, t.c)
                       [] OTHER -> RestartCallback(u, t.c))

\* 100 ms pass while no timer is due
UiTick ==
    /\ \E i \in 1..Len(pending) : IsTimer(pending[i])
    /\ \A i \in 1..Len(pending) : IsTimer(pending[i]) => pending[i].left > 0
    /\ pending' = [i \in 1..Len(pending) |->
                     IF IsTimer(pending[i])
                     THEN [pending[i] EXCEPT !.left = @ - 1]
                     ELSE pending[i]]
    /\ last' = NoEffect
    /\ UNCHANGED <<interactiveMode, isListening, recognition, handlers, utterance>>
    /\ UNCHANGED <<now, ticks, gvars, denv, dvars>>

\* line 385: the fetch of /api/gemini settles: it is rejected, or the body of
\* the answer is awaited (res.json(), line 390)
FetchAnswered ==
    \E i \in 1..Len(pending), settled \in BOOLEAN :
        /\ pending[i].kind = "fetch"
        /\ SetUi(IF settled
                 THEN [Ui EXCEPT !.pending[i].kind = "json"]
                 ELSE [Ui EXCEPT !.pending = Without(pending, i)])

\* lines 390-452: the body of the answer has been read
FetchRead ==
    \E i \in 1..Len(pending), ok \in BOOLEAN :
        /\ pending[i].kind = "json"
        /\ SetUi(Replied([Ui EXCEPT !.pending = Without(pending, i)],
                         pending[i].c, ok))

\* the utterance being spoken ends, or fails
UtteranceDone ==
    /\ utterance.speaking
    /\ \E ok \in BOOLEAN :
          LET u == [Ui EXCEPT !.utterance = NoUtterance]
          IN  SetUi(IF ok THEN UtteranceEnd(u, utterance.c)
                          ELSE UtteranceError(u, utterance.c))

\* the browser reports an interrupted utterance to utterance.onerror, or
\* does not report it
UtteranceCancelled ==
    \E i \in 1..Len(pending), reported \in BOOLEAN :
        /\ pending[i].kind = "cancelled"
        /\ LET u == [Ui EXCEPT !.pending = Without(pending, i)]
           IN  SetUi(IF reported THEN UtteranceError(u, pending[i].c) ELSE u)

\* the recognizer reports a final result: while the session is on, or, after
\* rec.stop() (lines 530, 499, 611), for the audio it had heard
RecResult ==
    /\ recognition \in {"on", "ending"}
    /\ ~handlers.finalTranscript
    /\ SetUi(OnResult(Ui))

\* the recognizer reports an error, also after rec.stop() and before the
\* end event; its end event follows
RecError ==
    \/ /\ recognition \in {"on", "ending"}
       /\ \E code \in RecErrors :
             SetUi(OnError([Ui EXCEPT !.recognition = "ending"], code))
    \/ /\ recognition = "aborting"
       /\ SetUi(OnError([Ui EXCEPT !.recognition = "ending"], "aborted"))

\* the session ends
RecEnd ==
    /\ recognition # "off"
    /\ SetUi(OnEnd([Ui EXCEPT !.recognition = "off"]))

UiNext ==
    \/ ClickMic
    \/ ClickToggle
    \/ ClickPopupListen
    \/ ClickPopupClose
    \/ ClickSpeaker
    \/ TimerFires
    \/ UiTick
    \/ FetchAnswered
    \/ FetchRead
    \/ UtteranceDone
    \/ UtteranceCancelled
    \/ RecResult
    \/ RecError
    \/ RecEnd

\* runs of the page alone (no handler of the server is configured)
InitUi ==
    /\ Init
    /\ genApiKey = ""
    /\ didApiKeyEnv = <<>> /\ didPublicKeyEnv = <<>> /\ didBasicAuthEnv = <<>>

SpecUi == InitUi /\ [][UiNext]_vars

\* runs of the two handlers side by side: they share nothing but the
\* clock.  One request arrives at each route, with a text of at most
\* MaxBothLen characters, under the configurations in which a key is set or
\* unset for each; the talk upstream answers a failed
\* tier with the body e1, a failed status request with s1 and a submission
\* with the id job1
InitBoth == Init /\ didPublicKeyEnv = <<>> /\ didBasicAuthEnv = <<>>

BothStep ==
    /\ gpc'[2] = "idle"
    /\ ticks' <= MaxBothTicks
    /\ now' <= MaxBothTicks * (intervalMs + 1)
    /\ \A p \in GenProcs : Len(gReq'[p].text) <= MaxBothLen
    /\ \A p \in DidProcs : Len(dReq'[p].text) <= MaxBothLen
    /\ \A p \in DidProcs :
          /\ \A k \in 1..Len(dSub'[p]) : dSub'[p][k].body \in {"", "e1", "job1"}
          /\ dErr'[p] \in {"", "s1"}

Next == GenNext \/ DidNext

Spec == InitBoth /\ [][Next /\ BothStep]_vars

\* =================================================================== claims
\* the request text of a body: missing, empty or whitespace-only
BlankText(b) == b.kind = "json" /\ (b.hasText => Trim(b.text) = <<>>)

\* a body with a usable text, and the cache key of that text
ValidText(b) == b.kind = "json" /\ b.hasText /\ Trim(b.text) # <<>>
NormalizedKey(b) == ToLowerCase(Trim(b.text))

\* the step in which invocation p, holding a usable text, checks the cache
GenChecks(p) == gpc[p] = "body" /\ gpc'[p] # "body" /\ ValidText(gReq[p])

\* C1: whenever the cache holds an entry for the normalized key whose age is
\* below the 5-minute TTL, the invocation returns that entry's stored reply
\* and issues zero upstream requests.
C1_FreshEntryServed ==
    [][\A p \in GenProcs :
          LET k == NormalizedKey(gReq[p])
          IN  (/\ GenChecks(p)
               /\ k \in DOMAIN responseCache
               /\ now - responseCache[k].timestamp < 5 * 60 * 1000)
              => (/\ gpc'[p] = "done"
                  /\ gResult'[p].status = 200
                  /\ gResult'[p].reply = responseCache[k].response
                  /\ gCalls'[p] = 0)]_vars

\* an invocation has been answered from the cache
C1_Witness ==
    \E p \in GenProcs :
        /\ gpc[p] = "done" /\ gResult[p].status = 200 /\ gCalls[p] = 0
        /\ gCached[p].present /\ gResult[p].reply = gCached[p].response

\* C2: two generate calls with the same normalized text, the second one
\* checking the cache within the TTL of the first one's answer and no other
\* call around, produce identical replies and exactly one upstream request.
C2_HitIdempotence ==
    [][\A p, q \in GenProcs :
          (/\ p # q
           /\ GenChecks(q)
           /\ gpc[p] = "done" /\ gWroteAt[p] >= 0
           /\ gKey[p] = NormalizedKey(gReq[q])
           /\ now - gWroteAt[p] < 5 * 60 * 1000
           /\ \A r \in GenProcs \ {p, q} : gpc[r] = "idle")
          => (/\ gpc'[q] = "done"
              /\ gResult'[q].status = 200
              /\ gResult'[q].reply = gResult[p].reply
              /\ gCalls[p] + gCalls'[q] = 1)]_vars

\* two finished calls for one key: the first fetched, the second was served
\* the same reply without a request
C2_Witness ==
    \E p, q \in GenProcs :
        /\ p # q /\ gpc[p] = "done" /\ gpc[q] = "done"
        /\ gKey[p] = gKey[q] /\ gWroteAt[p] >= 0
        /\ gCalls[p] = 1 /\ gCalls[q] = 0
        /\ gResult[q].status = 200 /\ gResult[q].reply = gResult[p].reply
        /\ gResult[p].reply # ""

\* C3: an entry whose age has reached the TTL is never served: the call
\* issues an upstream request, and the reply it then returns is the one the
\* upstream gave.
C3_ExpiredNeverServed ==
    [][\A p \in GenProcs :
          LET k == NormalizedKey(gReq[p])
          IN  /\ (/\ GenChecks(p)
                  /\ k \in DOMAIN responseCache
                  /\ now - responseCache[k].timestamp >= 5 * 60 * 1000)
                 => (gpc'[p] = "fetch" /\ gCalls'[p] = 1 /\ gResult'[p].status = 0)
              /\ (gpc[p] = "json" /\ gpc'[p] = "done" /\ gResult'[p].status = 200)
                 => gResult'[p].reply =
                       (IF gUpstream[p].shape = "text" THEN gUpstream[p].body ELSE "")]_vars

\* a call found an entry as old as the TTL and holds the fresh answer of
\* the upstream, which differs from the stored one
C3_Witness ==
    \E p \in GenProcs :
        /\ gpc[p] = "json" /\ gCalls[p] = 1
        /\ gCached[p].present
        /\ gUpstream[p].shape = "text"
        /\ gUpstream[p].body # gCached[p].response
        /\ \E q \in GenProcs : gWroteAt[q] = gCached[p].timestamp
                                /\ now - gWroteAt[q] = 5 * 60 * 1000

\* C4 as stated: a missing, empty or whitespace-only text ends with status
\* 400 in every configuration, with no upstream request and the cache
\* unchanged.
C4_AsStated ==
    [][/\ \A p \in GenProcs :
            /\ (gpc[p] = "idle" /\ gpc'[p] = "done" /\ BlankText(gReq'[p]))
               => gResult'[p].status = 400
            /\ (gpc[p] = "body" /\ gpc'[p] # "body" /\ BlankText(gReq[p]))
               => (gpc'[p] = "done" /\ gResult'[p].status = 400)
       /\ \A p \in DidProcs :
            /\ (dpc[p] = "idle" /\ dpc'[p] = "done" /\ BlankText(dReq'[p]))
               => dResult'[p].status = 400
            /\ (dpc[p] = "body" /\ dpc'[p] # "body" /\ BlankText(dReq[p]))
               => (dpc'[p] = "done" /\ dResult'[p].status = 400)]_vars

\* C4 amended: a missing, empty or whitespace-only text never causes an
\* upstream request or a cache change; the invocation ends with status 400
\* when the credential is configured, and with the configuration error
\* (status 500) when it is not, the credential being checked first.
C4_BlankTextRejected ==
    [][/\ \A p \in GenProcs :
            /\ (gpc[p] = "idle" /\ gpc'[p] # "idle" /\ BlankText(gReq'[p]))
               => /\ gCalls'[p] = 0 /\ responseCache' = responseCache
                  /\ IF genApiKey = ""
                     THEN gpc'[p] = "done" /\ gResult'[p].status = 500
                          /\ gResult'[p].error = "Missing GOOGLE_GENERATIVE_API_KEY"
                     ELSE gpc'[p] = "body"
            /\ (gpc[p] = "body" /\ gpc'[p] # "body" /\ BlankText(gReq[p]))
               => /\ gpc'[p] = "done" /\ gResult'[p].status = 400
                  /\ gCalls'[p] = 0 /\ responseCache' = responseCache
       /\ \A p \in DidProcs :
            /\ (dpc[p] = "idle" /\ dpc'[p] # "idle" /\ BlankText(dReq'[p]))
               => /\ dOut'[p].kind = "none" /\ dSub'[p] = <<>>
                  /\ IF didApiKeyEnv = <<>> /\ didPublicKeyEnv = <<>>
                        /\ didBasicAuthEnv = <<>>
                     THEN dpc'[p] = "done" /\ dResult'[p].status = 500
                          /\ dResult'[p].error = "Missing D-ID credentials"
                     ELSE dpc'[p] = "body"
            /\ (dpc[p] = "body" /\ dpc'[p] # "body" /\ BlankText(dReq[p]))
               => /\ dpc'[p] = "done" /\ dResult'[p].status = 400
                  /\ dOut'[p].kind = "none" /\ dSub'[p] = <<>>]_vars

\* a whitespace-only text has been rejected with status 400
C4_Witness ==
    \E p \in GenProcs :
        /\ gpc[p] = "done" /\ gResult[p].status = 400 /\ gCalls[p] = 0
        /\ gResult[p].error = "Missing 'text'"

\* C5: when the required credential is absent the invocation ends with the
\* configuration error (status 500) and has issued no network request.
C5_MissingCredential ==
    [][/\ \A p \in GenProcs :
            (genApiKey = "" /\ gpc[p] = "idle" /\ gpc'[p] # "idle")
            => (/\ gpc'[p] = "done" /\ gResult'[p].status = 500
                /\ gResult'[p].error = "Missing GOOGLE_GENERATIVE_API_KEY"
                /\ gCalls'[p] = 0 /\ gUpstream'[p].kind = "none")
       /\ \A p \in DidProcs :
            (/\ didApiKeyEnv = <<>> /\ didPublicKeyEnv = <<>> /\ didBasicAuthEnv = <<>>
             /\ dpc[p] = "idle" /\ dpc'[p] # "idle")
            => (/\ dpc'[p] = "done" /\ dResult'[p].status = 500
                /\ dResult'[p].error = "Missing D-ID credentials"
                /\ dOut'[p].kind = "none" /\ dSub'[p] = <<>>
                /\ dStartedAt'[p] = -1)]_vars

\* an invocation of the talk handler has ended on the missing credentials,
\* and beside it an invocation of the gemini handler, whose key is set, has
\* been answered by its upstream
C5_Witness ==
    /\ \E p \in DidProcs :
          /\ dpc[p] = "done" /\ dResult[p].status = 500
          /\ dResult[p].error = "Missing D-ID credentials"
          /\ dSub[p] = <<>> /\ dOut[p].kind = "none"
    /\ \E q \in GenProcs :
          gpc[q] = "done" /\ gResult[q].status = 200 /\ gCalls[q] = 1

\* C6: a non-success answer of the generation upstream is returned as status
\* 502 with the upstream status and raw body after exactly one request, the
\* cache is left unchanged, and a later call for the same key is a miss.
C6_UpstreamFailure ==
    [][/\ \A p \in GenProcs :
            /\ (gpc[p] = "fetch" /\ gpc'[p] # "fetch" /\ gUpstream'[p].kind = "nonok")
               => (gpc'[p] = "errtext" /\ gCalls'[p] = 1
                   /\ responseCache' = responseCache)
            /\ (gpc[p] = "errtext" /\ gpc'[p] # "errtext")
               => (/\ gpc'[p] = "done" /\ gResult'[p].status = 502
                   /\ gResult'[p].upstatus = gUpstream[p].status
                   /\ gResult'[p].detail = <<gUpstream[p].body>>
                   /\ gCalls'[p] = 1
                   /\ responseCache' = responseCache)
       /\ \A p, q \in GenProcs :
            (/\ gpc[p] = "done" /\ gResult[p].status = 502
             /\ GenChecks(q) /\ gKey[p] = NormalizedKey(gReq[q])
             /\ \A r \in GenProcs : gWroteAt[r] >= 0 => gKey[r] # gKey[p])
            => (gpc'[q] = "fetch" /\ gCalls'[q] = 1)]_vars

\* a call ended with 502 and a later call for the same key went upstream
C6_Witness ==
    \E p, q \in GenProcs :
        /\ p # q /\ gpc[p] = "done" /\ gResult[p].status = 502
        /\ gResult[p].upstatus = 429 /\ gCalls[p] = 1
        /\ gpc[q] = "fetch" /\ gKey[q] = gKey[p] /\ gKey[p] \notin DOMAIN responseCache

\* the four tiers, in order: endpoint and payload
TierOrder ==
    <<[endpoint |-> "v1", payload |-> "primaryBody"],
      [endpoint |-> "v1", payload |-> "secondaryBody"],
      [endpoint |-> "legacy", payload |-> "primaryBody"],
      [endpoint |-> "legacy", payload |-> "secondaryBody"]>>

AllFailed(sub, n) == \A k \in 1..n : sub[k].kind = "nonok"

\* C7: the tiers are attempted in the order (modern, minimal), (modern,
\* voice-provider), (legacy, minimal), (legacy, voice-provider); tier k is
\* attempted if and only if tiers 1..k-1 all returned non-success; none is
\* skipped, repeated, or attempted after a success; the job id is that of
\* the tier that succeeded.
C7_TierOrder ==
    \A p \in DidProcs :
        LET sub == dSub[p]
            n == Len(sub)
        IN  /\ n <= 4
            /\ \A k \in 1..n : /\ sub[k].endpoint = TierOrder[k].endpoint
                               /\ sub[k].payload = TierOrder[k].payload
            /\ AllFailed(sub, n - 1)
            /\ dOut[p].kind = "create"
               => (/\ n < 4 /\ AllFailed(sub, n)
                   /\ dOut[p].endpoint = TierOrder[n + 1].endpoint
                   /\ dOut[p].payload = TierOrder[n + 1].payload)
            /\ (n >= 1 /\ n < 4 /\ AllFailed(sub, n))
               => (dOut[p].kind = "create" \/ dpc[p] = "createRead")
            /\ (n >= 1 /\ sub[n].kind = "ok" /\ dpc[p] # "createRead")
               => (dId[p] = sub[n].body /\ dId[p] # "")
            /\ dId[p] # "" => (n >= 1 /\ sub[n].kind = "ok")

\* tiers 1-3 failed, tier 4 succeeded and gave the job id
C7_Witness ==
    \E p \in DidProcs :
        /\ Len(dSub[p]) = 4 /\ AllFailed(dSub[p], 3)
        /\ dSub[p][4].kind = "ok" /\ dId[p] = dSub[p][4].body /\ dId[p] = "job2"

\* C8: when all four tiers return non-success the error reported carries the
\* body of tier 4 and none of the bodies of tiers 1-3, and no status poll is
\* ever issued.
C8_LastTierBody ==
    \A p \in DidProcs :
        (Len(dSub[p]) = 4 /\ AllFailed(dSub[p], 4))
        => (/\ dpc[p] \in {"createRead", "done"}
            /\ dpc[p] = "createRead" => dResult[p] = DidNoResult
            /\ dpc[p] = "done" =>
               /\ dResult[p].detail = <<"Error: ", "D-ID create error: ", dSub[p][4].body>>
               /\ \A k \in 1..3 :
                     dSub[p][k].body # dSub[p][4].body
                     => \A i \in 1..Len(dResult[p].detail) :
                           dResult[p].detail[i] # dSub[p][k].body
            /\ dOut[p].kind = "none"
            /\ dStartedAt[p] = -1 /\ dLastStatus[p] = "" /\ dId[p] = "")

\* all four tiers failed, the first three with another body than the last
C8_Witness ==
    \E p \in DidProcs :
        /\ Len(dSub[p]) = 4 /\ AllFailed(dSub[p], 4) /\ dpc[p] = "done"
        /\ \A k \in 1..3 : dSub[p][k].body = "e1"
        /\ dSub[p][4].body = "e2"

\* C9: the exhaustion of the cascade is reported with the upstream-failure
\* status 502, not with the status 500 of the generic failure.
C9_ExhaustionIs502 ==
    \A p \in DidProcs :
        (Len(dSub[p]) = 4 /\ AllFailed(dSub[p], 4) /\ dpc[p] = "done")
        => dResult[p].status = 502

\* C10: a poll response with status "error" ends the poll loop at once: the
\* result is status 502 with that response's error detail and the job id,
\* and the invocation issues no further request.
C10_FailFast ==
    [][\A p \in DidProcs :
          /\ (dpc[p] \in {"read1", "read2"} /\ dpc'[p] # dpc[p]
              /\ dRes'[p] = "ok" /\ dS'[p].status = "error")
             => (/\ dpc'[p] = "done"
                 /\ dOut'[p].kind = "none"
                 /\ dResult'[p].status = 502
                 /\ dResult'[p].error = "D-ID processing error"
                 /\ dResult'[p].detail = <<dS'[p].error>>
                 /\ dResult'[p].id = dId[p])
          /\ (dpc[p] \in {"read1", "read2"} /\ dpc'[p] # dpc[p]
              /\ dLastStatus'[p] = "error")
             => (dpc'[p] = "done" /\ dResult'[p].status = 502)
          /\ (dpc[p] = "done" /\ dLastStatus[p] = "error")
             => (dpc'[p] = "done" /\ dOut'[p].kind = "none")]_vars

\* a second poll answered "error" and the invocation ended with 502
C10_Witness ==
    \E p \in DidProcs :
        /\ dpc[p] = "done" /\ dResult[p].status = 502
        /\ dS[p].status = "error" /\ dResult[p].detail = <<"failed">>
        /\ dResult[p].id = dId[p] /\ dId[p] # ""
        /\ now > dStartedAt[p]

\* C11: a poll loop whose responses are all "pending" goes on until the
\* 30-second deadline and ends there: after a "pending" response the loop
\* polls again while less than 30000 ms have passed since the start of
\* polling, and otherwise returns status 504 with the job id and the status
\* "pending"; a 504 is never returned before the deadline.
C11_PendingUntilDeadline ==
    [][\A p \in DidProcs :
          /\ (dpc[p] = "sleep" /\ dpc'[p] # "sleep" /\ dLastStatus[p] = "pending")
             => IF now - dStartedAt[p] < 30000
                THEN /\ dpc'[p] = "status1" /\ dOut'[p].kind = "status"
                     /\ dResult'[p].status = 0
                ELSE /\ dpc'[p] = "done"
                     /\ dResult'[p].status = 504
                     /\ dResult'[p].error = "Timeout waiting for video"
                     /\ dResult'[p].id = dId[p] /\ dId[p] # ""
                     /\ dResult'[p].jobStatus = "pending"
          /\ (dpc'[p] = "done" /\ dResult'[p].status = 504)
             => (dpc[p] \in {"sleep", "done"} /\ now - dStartedAt[p] >= 30000)]_vars

\* the loop has polled up to the deadline, seen "pending" last, and ended
\* with 504 exactly 30 seconds after the start of polling
C11_Witness ==
    \E p \in DidProcs :
        /\ dpc[p] = "done" /\ dResult[p].status = 504
        /\ dResult[p].jobStatus = "pending" /\ dResult[p].id = "job1"
        /\ dS[p].status = "pending"
        /\ now - dStartedAt[p] = 30000

\* C12: a successful video invocation returns the job id given by the first
\* tier that succeeded (all tiers before it having failed) and, as videoUrl,
\* the non-empty result_url of the poll response with status "done" that it
\* has just handled; no success is returned without such a response.
C12_SuccessShape ==
    /\ \A p \in DidProcs :
          (dpc[p] = "done" /\ dResult[p].status = 200)
          => LET n == Len(dSub[p])
             IN  /\ n >= 1 /\ dSub[p][n].kind = "ok" /\ AllFailed(dSub[p], n - 1)
                 /\ dResult[p].id = dSub[p][n].body /\ dResult[p].id # ""
                 /\ dS[p].status = "done" /\ dS[p].result_url # ""
                 /\ dResult[p].videoUrl = dS[p].result_url
                 /\ dResult[p].error = ""
    /\ \A p \in DidProcs :
          (dResult[p].videoUrl # "" \/ dResult[p].status = 200)
          => (dpc[p] = "done" /\ dResult[p].status = 200)

\* tiers 1 and 2 failed, tier 3 gave the job id, the first poll answered
\* "done" with a result_url
C12_Witness ==
    \E p \in DidProcs :
        /\ dpc[p] = "done" /\ dResult[p].status = 200
        /\ Len(dSub[p]) = 3 /\ AllFailed(dSub[p], 2)
        /\ dResult[p].id = "job2" /\ dSub[p][3].body = "job2"
        /\ dResult[p].videoUrl = "url1"
        /\ now = dStartedAt[p]

\* C13: a successful upstream answer without the candidate text does not
\* fail the invocation: it returns the reply "" and stores "" under the key,
\* stamped with the time of the answer; a later call for that key that finds
\* the entry younger than the TTL is served "" without an upstream request.
C13_MissingShapeCached ==
    [][/\ \A p \in GenProcs :
            (gpc[p] = "json" /\ gpc'[p] # "json" /\ gUpstream[p].shape = "missing")
            => (/\ gpc'[p] = "done"
                /\ gResult'[p].status = 200 /\ gResult'[p].reply = ""
                /\ gResult'[p].error = ""
                /\ gKey[p] \in DOMAIN responseCache'
                /\ responseCache'[gKey[p]] = [response |-> "", timestamp |-> now])
       /\ \A q \in GenProcs :
            LET k == NormalizedKey(gReq[q])
            IN  (/\ GenChecks(q)
                 /\ k \in DOMAIN responseCache
                 /\ responseCache[k].response = ""
                 /\ now - responseCache[k].timestamp < 5 * 60 * 1000)
                => (/\ gpc'[q] = "done"
                    /\ gResult'[q].status = 200 /\ gResult'[q].reply = ""
                    /\ gCalls'[q] = 0
                    /\ responseCache' = responseCache)]_vars

\* a call got an answer without text and cached ""; a later call for the same
\* key, one tick short of the TTL, was served "" from the cache
C13_Witness ==
    \E p, q \in GenProcs :
        /\ p # q /\ gpc[p] = "done" /\ gpc[q] = "done"
        /\ gWroteAt[p] >= 0 /\ gCalls[p] = 1
        /\ gResult[p].status = 200 /\ gResult[p].reply = ""
        /\ gKey[q] = gKey[p] /\ gCalls[q] = 0
        /\ gCached[q].present /\ gCached[q].response = ""
        /\ gCached[q].timestamp = gWroteAt[p]
        /\ gResult[q].status = 200 /\ gResult[q].reply = ""
        /\ now - gWroteAt[p] = 5 * 60 * 1000 - 1

\* the fetch of invocation p of the talk handler settles
DidAnswered(p) ==
    /\ dpc[p] \in {"create", "status1", "status2"}
    /\ dpc'[p] # dpc[p]

\* invocation p has read the body of a response
DidRead(p) ==
    /\ dpc[p] \in {"createRead", "read1", "read2"}
    /\ dpc'[p] # dpc[p]

\* C14: in both handlers an exception at an await (the request body does not
\* parse or its text is not a string, a fetch rejects, the body of an
\* upstream answer does not parse) ends the invocation with one response:
\* status 500, error "Request failed" and the stringified cause; a response,
\* once returned, never changes.
C14_ExceptionsCaught ==
    [][/\ \A p \in GenProcs :
            /\ (gpc[p] = "body" /\ gpc'[p] # "body"
                /\ gReq[p].kind \in {"badjson", "nontext"})
               => (/\ gpc'[p] = "done" /\ gResult'[p].status = 500
                   /\ gResult'[p].error = "Request failed"
                   /\ gResult'[p].detail \in {<<"SyntaxError">>, <<"TypeError">>}
                   /\ gCalls'[p] = 0 /\ responseCache' = responseCache)
            /\ (gpc[p] = "fetch" /\ gpc'[p] = "done")
               => (/\ gResult'[p].status = 500
                   /\ gResult'[p].error = "Request failed"
                   /\ gResult'[p].detail = <<"TypeError: fetch failed">>
                   /\ responseCache' = responseCache)
            /\ (gpc[p] = "json" /\ gpc'[p] # "json" /\ gUpstream[p].shape = "unparsable")
               => (/\ gpc'[p] = "done" /\ gResult'[p].status = 500
                   /\ gResult'[p].error = "Request failed"
                   /\ gResult'[p].detail = <<"SyntaxError">>
                   /\ responseCache' = responseCache)
            /\ gpc[p] # "done" => gResult[p].status = 0
            /\ gpc[p] = "done"
               => (gpc'[p] = "done" /\ gResult'[p] = gResult[p] /\ gResult[p].status # 0)
       /\ \A p \in DidProcs :
            /\ (dpc[p] = "body" /\ dpc'[p] # "body"
                /\ dReq[p].kind \in {"badjson", "nontext"})
               => (/\ dpc'[p] = "done" /\ dResult'[p].status = 500
                   /\ dResult'[p].error = "Request failed"
                   /\ dResult'[p].detail \in {<<"SyntaxError">>, <<"TypeError">>}
                   /\ dOut'[p].kind = "none" /\ dSub'[p] = <<>>)
            /\ (DidAnswered(p) /\ dRes'[p] = "throw")
               => (/\ dpc'[p] = "done" /\ dResult'[p].status = 500
                   /\ dResult'[p].error = "Request failed"
                   /\ dResult'[p].detail = <<"TypeError: fetch failed">>
                   /\ dOut'[p].kind = "none")
            /\ (DidRead(p) /\ dRes'[p] = "unparsable")
               => (/\ dpc'[p] = "done" /\ dResult'[p].status = 500
                   /\ dResult'[p].error = "Request failed"
                   /\ dResult'[p].detail = <<"SyntaxError">>
                   /\ dOut'[p].kind = "none")
            /\ (DidAnswered(p) \/ DidRead(p)) => dRes'[p] # "none"
            /\ dpc[p] # "done" => dResult[p].status = 0
            /\ dpc[p] = "done"
               => (dpc'[p] = "done" /\ dResult'[p] = dResult[p] /\ dResult[p].status # 0)]_vars

\* after a tier gave the job id and a poll answered "pending", the next
\* status request was rejected and the invocation ended with status 500
C14_Witness ==
    \E p \in DidProcs :
        /\ dpc[p] = "done" /\ dRes[p] = "throw"
        /\ dId[p] # "" /\ dLastStatus[p] = "pending"
        /\ dResult[p].status = 500 /\ dResult[p].error = "Request failed"
        /\ dResult[p].detail = <<"TypeError: fetch failed">>

\* C15: also under concurrent invocations for one normalized key, the
\* replies returned for that key within one TTL window are the same answer:
\* two calls that fetched and answered less than a TTL apart gave the same
\* reply, and while a call's answer is younger than the TTL the cache holds
\* that answer for its key.
C15_SameAnswerPerKey ==
    /\ \A p, q \in GenProcs :
          (/\ gpc[p] = "done" /\ gpc[q] = "done"
           /\ gWroteAt[p] >= 0 /\ gWroteAt[q] >= 0
           /\ gKey[p] = gKey[q]
           /\ gWroteAt[p] - gWroteAt[q] < 5 * 60 * 1000
           /\ gWroteAt[q] - gWroteAt[p] < 5 * 60 * 1000)
          => gResult[p].reply = gResult[q].reply
    /\ \A p \in GenProcs :
          (/\ gpc[p] = "done" /\ gWroteAt[p] >= 0
           /\ now - gWroteAt[p] < 5 * 60 * 1000)
          => (/\ gKey[p] \in DOMAIN responseCache
              /\ responseCache[gKey[p]].response = gResult[p].reply)

\* C16: the 30-second deadline runs from the first submission request: no
\* poll attempt is started more than 30000 ms after the request of tier 1
\* was issued, however long the cascade took.
C16_DeadlineFromFirstSubmission ==
    [][\A p \in DidProcs :
          (dpc[p] # "status1" /\ dpc'[p] = "status1")
          => (dFirstReqAt[p] >= 0 /\ now - dFirstReqAt[p] <= 30000)]_vars

\* C17: "done" and "error" are terminal for the poller: once a poll
\* response with one of these statuses has been observed the invocation
\* issues no further status request, and a timeout (504) is only reported
\* with a last status other than "done" and "error".
C17_TerminalStatuses ==
    [][\A p \in DidProcs :
          /\ dLastStatus[p] \in {"done", "error"}
             => (dpc'[p] \notin {"status1", "status2"} /\ dOut'[p].kind # "status")
          /\ (dpc'[p] = "done" /\ dResult'[p].status = 504)
             => dResult'[p].jobStatus \notin {"done", "error"}]_vars

\* C18: a poll response whose status is neither "done" nor "error",
\* recognized or not, is treated as pending: the invocation returns nothing
\* and sleeps the inter-poll delay of 1200 ms, after which it polls again
\* (or times out, once the deadline is reached); a success or a 502 is only
\* ever returned on a response with status "done" or "error".
C18_UnknownIsPending ==
    [][\A p \in DidProcs :
          /\ (/\ DidRead(p) /\ dpc[p] \in {"read1", "read2"}
              /\ dRes'[p] = "ok" /\ dS'[p].status \notin {"done", "error"})
             => (/\ dpc'[p] = "sleep"
                 /\ dWakeAt'[p] = now + 1200
                 /\ dOut'[p].kind = "none"
                 /\ dResult'[p].status = 0
                 /\ dLastStatus'[p] = dS'[p].status)
          /\ (/\ dpc[p] = "sleep" /\ dpc'[p] # "sleep"
              /\ dLastStatus[p] \notin {"done", "error"})
             => (/\ now >= dWakeAt[p]
                 /\ IF now - dStartedAt[p] < 30000
                    THEN dpc'[p] = "status1" /\ dOut'[p].kind = "status"
                    ELSE /\ dpc'[p] = "done" /\ dResult'[p].status = 504
                         /\ dResult'[p].jobStatus = dLastStatus[p])
          /\ dResult'[p].status = 200 => dS'[p].status = "done"
          /\ dResult'[p].status = 502 => dS'[p].status = "error"]_vars

\* the unrecognized status "created" was observed and, the delay over, the
\* invocation is polling again
C18_Witness ==
    \E p \in DidProcs :
        /\ dpc[p] = "status1" /\ dOut[p].kind = "status"
        /\ dLastStatus[p] = "created" /\ dS[p].status = "created"
        /\ now >= dStartedAt[p] + 1200
        /\ dResult[p].status = 0

\* C19: a poll attempt starts with a status request to the primary path for
\* the job id; the legacy path is asked, for the same job id and as soon as
\* the text of the primary response has been read, exactly when the primary
\* request was answered with a non-success status; the answer to the legacy
\* request ends the attempt, so an attempt makes at most two requests and
\* none to the legacy path after a primary success.
C19_PrimaryThenLegacy ==
    [][\A p \in DidProcs :
          /\ (dpc[p] # "status1" /\ dpc'[p] = "status1")
             => (/\ dOut'[p].kind = "status" /\ dOut'[p].endpoint = "v1"
                 /\ dOut'[p].id = dId'[p] /\ dId'[p] # "")
          /\ (dpc[p] = "status1" /\ DidAnswered(p))
             => (dpc'[p] \in {"read1", "done"} /\ dOut'[p].kind = "none")
          /\ (dpc[p] = "read1" /\ DidRead(p))
             => IF dRes[p] = "nonok"
                THEN /\ dpc'[p] = "status2" /\ now' = now
                     /\ dOut'[p].kind = "status" /\ dOut'[p].endpoint = "legacy"
                     /\ dOut'[p].id = dId[p] /\ dId'[p] = dId[p]
                ELSE dpc'[p] \in {"sleep", "done"} /\ dOut'[p].kind = "none"
          /\ (dpc[p] # "status2" /\ dpc'[p] = "status2")
             => (dpc[p] = "read1" /\ dRes[p] = "nonok")
          /\ (dpc[p] = "status2" /\ DidAnswered(p))
             => (dpc'[p] \in {"read2", "done"} /\ dOut'[p].kind = "none")
          /\ (dpc[p] = "read2" /\ DidRead(p))
             => (dpc'[p] \in {"sleep", "done"} /\ dOut'[p].kind = "none")
          /\ dOut[p].kind = "status"
             => \/ dpc[p] = "status1" /\ dOut[p].endpoint = "v1"
                \/ dpc[p] = "status2" /\ dOut[p].endpoint = "legacy"]_vars

\* in a later poll attempt the primary path answered non-success and the
\* request to the legacy path, for the same job, is in flight
C19_Witness ==
    \E p \in DidProcs :
        /\ dpc[p] = "status2" /\ dRes[p] = "nonok"
        /\ dOut[p].kind = "status" /\ dOut[p].endpoint = "legacy"
        /\ dOut[p].id = "job2" /\ dId[p] = "job2"
        /\ dLastStatus[p] = "pending"

\* C20: within one invocation every request, of a submission tier or of a
\* status poll on either path, carries the same authentication headers: those
\* built from the credentials the invocation resolved from the environment
\* when it started.
C20_SameAuthHeaders ==
    [][\A p \in DidProcs :
          /\ dpc[p] \notin {"idle", "off", "done"}
             => (/\ dAuth[p] = [studioApiKey |-> Or(didApiKeyEnv, didPublicKeyEnv),
                                basicAuth |-> didBasicAuthEnv]
                 /\ dAuth'[p] = dAuth[p])
          /\ dOut[p].kind # "none"
             => dOut[p].headers = buildAuthHeaders(dAuth[p])
          /\ (dpc[p] \notin {"idle", "off"} /\ dOut'[p].kind # "none")
             => dOut'[p].headers = buildAuthHeaders(dAuth[p])]_vars

\* the cascade went as far as the legacy endpoint, and the status request to
\* the legacy path carries the Basic authorization built from DID_BASIC_AUTH
C20_Witness ==
    \E p \in DidProcs :
        /\ dpc[p] = "status2" /\ dOut[p].kind = "status"
        /\ Len(dSub[p]) >= 3 /\ dSub[p][3].endpoint = "legacy"
        /\ didBasicAuthEnv = <<"x">> /\ didApiKeyEnv = <<"k">>
        /\ dOut[p].headers.authorization = <<"Basic ", "x">>
        /\ dOut[p].headers.xApiKey = <<>>

\* C21: every outbound request of the talk handler carries exactly one of
\* the two authentication headers, x-api-key or Authorization, whatever
\* credentials passed the check of the handler.
C21_ExactlyOneAuthScheme ==
    \A p \in DidProcs :
        dOut[p].kind # "none"
        => (dOut[p].headers.xApiKey # <<>>) # (dOut[p].headers.authorization # <<>>)

\* C22: a poll attempt that observed a non-terminal status is followed by a
\* timer of 1200 ms set at its completion, and the next poll attempt starts
\* only when that timer has fired: at least 1200 ms lie between the two, and
\* a poll attempt never starts directly from another one.
C22_InterPollDelay ==
    [][\A p \in DidProcs :
          /\ (dpc[p] \in {"read1", "read2"}
              /\ dpc'[p] \notin {"read1", "read2", "status2", "done"})
             => (dpc'[p] = "sleep" /\ dWakeAt'[p] = now + 1200 /\ dOut'[p].kind = "none")
          /\ (dpc[p] \in {"status1", "status2"} /\ dpc'[p] # dpc[p])
             => dpc'[p] \in {"read1", "read2", "done"}
          /\ (dpc[p] # "status1" /\ dpc'[p] = "status1")
             => \/ dpc[p] = "createRead" /\ dLastStatus[p] = ""
                \/ dpc[p] = "sleep" /\ dWakeAt[p] >= 1200 /\ now >= dWakeAt[p]
          /\ dpc[p] = "sleep" => (dWakeAt'[p] = dWakeAt[p] \/ dpc'[p] # "sleep")]_vars

\* the second poll is in flight, started 1200 ms after the first one ended
C22_Witness ==
    \E p \in DidProcs :
        /\ dpc[p] = "status1" /\ dOut[p].kind = "status"
        /\ dLastStatus[p] = "pending"
        /\ now = dStartedAt[p] + 1200

\* C23: within one invocation of either handler the network calls are
\* sequential: a request is in flight only while the invocation awaits its
\* answer, a request is issued only when none is in flight, and a request in
\* flight is dropped by nothing but its answer.
C23_SequentialCalls ==
    [][/\ \A p \in GenProcs :
            /\ gCalls'[p] # gCalls[p]
               => (/\ gCalls'[p] = gCalls[p] + 1 /\ gCalls[p] = 0
                   /\ gpc[p] = "body" /\ gpc'[p] = "fetch")
            /\ gpc[p] = "fetch" => gCalls[p] = 1
            /\ (gpc[p] # "fetch" /\ gpc'[p] = "fetch") => gCalls'[p] = gCalls[p] + 1
       /\ \A p \in DidProcs :
            /\ dOut[p].kind # "none" <=> dpc[p] \in {"create", "status1", "status2"}
            /\ (dOut[p].kind # "none" /\ dOut'[p] # dOut[p])
               => (DidAnswered(p) /\ dOut'[p].kind = "none")
            /\ dOut'[p].kind # "none" => (dOut[p].kind = "none" \/ dOut'[p] = dOut[p])
            /\ (dOut[p].kind = "none" /\ dOut'[p].kind # "none")
               => dpc[p] \in {"body", "createRead", "read1", "sleep"}
            /\ (DidRead(p) /\ dOut'[p].kind # "none")
               => dRes'[p] \in {"nonok", "ok"}
            /\ (dpc[p] = "create" /\ DidAnswered(p))
               => Len(dSub'[p]) = Len(dSub[p]) + 1]_vars

\* the request of the second tier is in flight, the first tier having been
\* answered
C23_Witness ==
    \E p \in DidProcs :
        /\ dpc[p] = "create" /\ Len(dSub[p]) = 1 /\ dSub[p][1].kind = "nonok"
        /\ dOut[p].kind = "create" /\ dOut[p].payload = "secondaryBody"
        /\ dRes[p] = "nonok"

\* the outcomes of an invocation of the talk handler: success, validation
\* error, configuration error, upstream error, timeout, generic failure
DidOutcome(res) ==
    \/ res.status = 200 /\ res.videoUrl # "" /\ res.error = ""
    \/ res.status = 400 /\ res.error = "Missing 'text'"
    \/ res.status = 500 /\ res.error = "Missing D-ID credentials"
    \/ res.status = 502 /\ res.error = "D-ID processing error"
    \/ res.status = 504 /\ res.error = "Timeout waiting for video"
    \/ res.status = 500 /\ res.error = "Request failed"

\* C24: when the request body is delivered, every outbound request is
\* answered, the timer fires and the clock advances, every invocation of the
\* talk handler that has started ends, whatever the upstream answers, and it
\* ends with exactly one of the six outcomes.  (Invocation 1 is the one that
\* arrives in these runs.)
C24_Terminates ==
    \A p \in {1} :
        /\ (dpc[p] \notin {"idle", "off"}) ~> (dpc[p] = "done")
        /\ [](dpc[p] = "done" => DidOutcome(dResult[p]))
        /\ [](dpc[p] # "done" => dResult[p] = DidNoResult)

\* the upstream answered the unrecognized status "created" until the
\* deadline, and the invocation ended with the timeout
C24_Witness ==
    \E p \in DidProcs :
        /\ dpc[p] = "done" /\ dResult[p].status = 504
        /\ dResult[p].jobStatus = "created"
        /\ now - dStartedAt[p] >= 30000

\* the locals of invocation p of the talk handler
DidLocals(p) ==
    <<dpc[p], dReq[p], dAuth[p], dOut[p], dSub[p], dId[p], dStartedAt[p],
      dLastStatus[p], dS[p], dWakeAt[p], dRes[p], dErr[p], dFirstReqAt[p],
      dResult[p]>>

\* C25: concurrent invocations of the talk handler are independent: a step
\* changes the locals of one invocation only; each invocation polls for the
\* job id its own submission returned, tests the deadline against its own
\* startedAt, and reports its own last status; its outcome is the one its own
\* poll responses determine.
C25_Independent ==
    [][\A p \in DidProcs :
          /\ \A q \in DidProcs \ {p} :
                DidLocals(p)' # DidLocals(p) => DidLocals(q)' = DidLocals(q)
          /\ dOut[p].kind = "status"
             => (/\ dOut[p].id = dId[p]
                 /\ dId[p] = dSub[p][Len(dSub[p])].body)
          /\ (dpc[p] = "sleep" /\ dpc'[p] # "sleep")
             => IF now - dStartedAt[p] < 30000
                THEN dpc'[p] = "status1" /\ dOut'[p].id = dId[p]
                ELSE /\ dpc'[p] = "done" /\ dResult'[p].status = 504
                     /\ dResult'[p].id = dId[p]
                     /\ dResult'[p].jobStatus = dLastStatus[p]
          /\ (dpc[p] \in {"read1", "read2"} /\ dpc'[p] = "done")
             => \/ /\ dS'[p].status = "done" /\ dResult'[p].status = 200
                   /\ dResult'[p].id = dId[p]
                   /\ dResult'[p].videoUrl = dS'[p].result_url
                \/ /\ dS'[p].status = "error" /\ dResult'[p].status = 502
                   /\ dResult'[p].id = dId[p]
                   /\ dResult'[p].detail = <<dS'[p].error>>
          /\ dpc[p] = "done" => dResult'[p] = dResult[p]]_vars

\* two invocations overlapped: the first got job1 and timed out 30 s after
\* its own start of polling, the second started polling later for job2 and
\* is still polling
C25_Witness ==
    /\ dpc[1] = "done" /\ dResult[1].status = 504 /\ dResult[1].id = "job1"
    /\ now - dStartedAt[1] = 30000
    /\ dpc[2] = "status1" /\ dId[2] = "job2" /\ dOut[2].id = "job2"
    /\ dStartedAt[2] > dStartedAt[1]
    /\ dLastStatus[2] = "pending"

\* C26: the cache changes only when an invocation has received a successful
\* upstream answer: the entry of that invocation's normalized key becomes the
\* reply just returned, stamped with the current time; no key ever leaves
\* the cache, and the entries of all other keys stay as they were.
C26_CacheLifecycle ==
    [][/\ DOMAIN responseCache \subseteq DOMAIN responseCache'
       /\ \A k \in DOMAIN responseCache' : k = ToLowerCase(Trim(k)) /\ k # <<>>
       /\ responseCache' # responseCache
          => \E p \in GenProcs :
                /\ gpc[p] = "json" /\ gpc'[p] = "done"
                /\ gUpstream[p].kind = "ok" /\ gUpstream[p].shape # "unparsable"
                /\ gCalls[p] = 1
                /\ gResult'[p].status = 200
                /\ gKey[p] \in DOMAIN responseCache'
                /\ responseCache'[gKey[p]] =
                      [response |-> gResult'[p].reply, timestamp |-> now]
                /\ \A k \in DOMAIN responseCache' \ {gKey[p]} :
                      k \in DOMAIN responseCache /\ responseCache'[k] = responseCache[k]]_vars

\* the cache holds an entry that has expired and, beside it, the entry of
\* another key written after that
C26_Witness ==
    \E k1, k2 \in DOMAIN responseCache :
        /\ k1 # k2
        /\ now - responseCache[k1].timestamp >= 5 * 60 * 1000
        /\ responseCache[k2].timestamp > responseCache[k1].timestamp

\* two characters equal up to letter case, and two texts that differ only in
\* letter case or surrounding whitespace
SameLetter(c, d) == c = d \/ (c \in {"a", "A"} /\ d \in {"a", "A"})

SameUpToCaseAndSpace(s, t) ==
    LET a == Trim(s)
        b == Trim(t)
    IN  Len(a) = Len(b) /\ \A i \in 1..Len(a) : SameLetter(a[i], b[i])

\* C27: the cache key is the trimmed, case-folded text: a call whose text
\* differs only in letter case or surrounding whitespace from a text whose
\* answer is in the cache, younger than the TTL, is served that answer with
\* no upstream request, and a call is never served the entry of a text that
\* differs from its own in more than that.
C27_KeyNormalization ==
    [][\A q \in GenProcs :
          GenChecks(q)
          => /\ gKey'[q] = ToLowerCase(Trim(gReq[q].text))
             /\ \A s \in Strings :
                   Trim(s) # <<>>
                   => LET ks == ToLowerCase(Trim(s))
                      IN  IF SameUpToCaseAndSpace(s, gReq[q].text)
                          THEN (/\ ks \in DOMAIN responseCache
                                /\ now - responseCache[ks].timestamp < 5 * 60 * 1000)
                               => (/\ gpc'[q] = "done"
                                   /\ gResult'[q].status = 200
                                   /\ gResult'[q].reply = responseCache[ks].response
                                   /\ gCalls'[q] = 0)
                          ELSE gKey'[q] # ks
             /\ gpc'[q] = "done"
                => (/\ gKey'[q] \in DOMAIN responseCache
                    /\ gResult'[q].reply = responseCache[gKey'[q]].response
                    /\ gCached'[q].response = gResult'[q].reply)]_vars

\* the answer to the text "a" is in the cache and a call with the text " A"
\* is about to look it up
C27_Witness ==
    \E p, q \in GenProcs :
        /\ p # q /\ gpc[p] = "done" /\ gWroteAt[p] >= 0
        /\ gKey[p] = <<"a">> /\ gResult[p].reply = "r2"
        /\ <<"a">> \in DOMAIN responseCache
        /\ now - responseCache[<<"a">>].timestamp < 5 * 60 * 1000
        /\ gpc[q] = "body" /\ gReq[q].kind = "json" /\ gReq[q].text = <<" ", "A">>

\* C28: overlapping invocations for one key are not coalesced: an invocation
\* that finds no fresh entry makes its own upstream request even while
\* another one is fetching for the same key, and each successful answer
\* overwrites the entry with its reply and the current time, so the cache
\* holds the value and timestamp of the write that happened last.
C28_LastWriterWins ==
    [][/\ \A p, q \in GenProcs :
            LET k == NormalizedKey(gReq[q])
            IN  (/\ p # q /\ GenChecks(q)
                 /\ gpc[p] \in {"fetch", "json"} /\ gKey[p] = k
                 /\ ~(k \in DOMAIN responseCache
                      /\ now - responseCache[k].timestamp < 5 * 60 * 1000))
                => (gpc'[q] = "fetch" /\ gCalls'[q] = 1 /\ gCalls[p] = 1)
       /\ \A p \in GenProcs :
            (gpc[p] = "json" /\ gpc'[p] = "done" /\ gResult'[p].status = 200)
            => (/\ responseCache'[gKey[p]] =
                      [response |-> gResult'[p].reply, timestamp |-> now]
                /\ gWroteAt'[p] = now)
       /\ \A k \in DOMAIN responseCache :
            /\ \E p \in GenProcs :
                  /\ gpc[p] = "done" /\ gKey[p] = k /\ gWroteAt[p] >= 0
                  /\ responseCache[k] =
                        [response |-> gResult[p].reply, timestamp |-> gWroteAt[p]]
            /\ \A p \in GenProcs :
                  (gKey[p] = k /\ gWroteAt[p] >= 0)
                  => gWroteAt[p] <= responseCache[k].timestamp]_vars

\* two invocations for one key both missed the cache; the one that arrived
\* first was answered last, and the cache holds its reply and timestamp, not
\* those of the other
C28_Witness ==
    /\ gpc[1] = "done" /\ gpc[2] = "done"
    /\ gKey[1] = gKey[2] /\ gCalls[1] = 1 /\ gCalls[2] = 1
    /\ ~gCached[1].present /\ ~gCached[2].present
    /\ gWroteAt[1] > gWroteAt[2] /\ gWroteAt[2] >= 0
    /\ gResult[1].reply # gResult[2].reply
    /\ responseCache[gKey[1]] =
          [response |-> gResult[1].reply, timestamp |-> gWroteAt[1]]

\* C29: the successful upstream answer is the only path that writes the
\* cache: an invocation that ends in any other way (cache hit, validation
\* error, configuration error, upstream non-success, exception) and every
\* step that ends no invocation leave the whole cache as it was; a hit keeps
\* the timestamp of the entry, so the entry it serves is younger than the
\* TTL counted from its insertion.
C29_SingleWritePath ==
    [][/\ \A p \in GenProcs :
            /\ (gpc[p] # "done" /\ gpc'[p] = "done"
                /\ ~(gpc[p] = "json" /\ gResult'[p].status = 200))
               => responseCache' = responseCache
            /\ (gpc[p] # "done" /\ gpc'[p] # "done" /\ gpc'[p] # gpc[p])
               => responseCache' = responseCache
            /\ (gpc[p] = "body" /\ gpc'[p] = "done" /\ gResult'[p].status = 200)
               => (/\ responseCache' = responseCache
                   /\ \E w \in GenProcs :
                         /\ w # p /\ gpc[w] = "done" /\ gKey[w] = gKey'[p]
                         /\ gWroteAt[w] = responseCache[gKey'[p]].timestamp
                         /\ now - gWroteAt[w] < 5 * 60 * 1000)
       /\ now' # now => responseCache' = responseCache]_vars

\* an entry was served one millisecond before its TTL ran out and, the
\* millisecond over, has expired: the hit did not refresh it
C29_Witness ==
    \E p, q \in GenProcs :
        /\ p # q /\ gpc[p] = "done" /\ gpc[q] = "done"
        /\ gWroteAt[p] >= 0 /\ gKey[q] = gKey[p]
        /\ gCalls[q] = 0 /\ gResult[q].status = 200 /\ gCached[q].present
        /\ responseCache[gKey[p]].timestamp = gWroteAt[p]
        /\ now - gWroteAt[p] = 5 * 60 * 1000

\* C30: an invocation of the gemini handler issues at most one upstream
\* request; it has issued none when it ends in a cache hit, in the
\* validation error or in the configuration error, and exactly one when it
\* ends with an answer or a failure of the upstream.
C30_AtMostOneRequest ==
    \A p \in GenProcs :
        /\ gCalls[p] \in {0, 1}
        /\ gpc[p] \in {"fetch", "errtext", "json"} => gCalls[p] = 1
        /\ gpc[p] \in {"idle", "body"} => gCalls[p] = 0
        /\ gpc[p] = "done"
           => /\ gResult[p].status = 400 => gCalls[p] = 0
              /\ gResult[p].error = "Missing GOOGLE_GENERATIVE_API_KEY" => gCalls[p] = 0
              /\ (gResult[p].status = 200 /\ gWroteAt[p] = -1)
                 => (gCalls[p] = 0 /\ gCached[p].present
                     /\ gResult[p].reply = gCached[p].response)
              /\ (gResult[p].status = 200 /\ gWroteAt[p] >= 0) => gCalls[p] = 1
              /\ gResult[p].status = 502 => gCalls[p] = 1

\* one invocation ended in the validation error without a request, another
\* in an upstream failure after its one request
C30_Witness ==
    \E p, q \in GenProcs :
        /\ gpc[p] = "done" /\ gResult[p].status = 400 /\ gCalls[p] = 0
        /\ gpc[q] = "done" /\ gResult[q].status = 502 /\ gCalls[q] = 1

\* C31: when both a Basic credential and an API key are configured and
\* neither is blank, every outbound request (the four create tiers and both
\* status paths) carries the Authorization header, "Basic " followed by the
\* credential, and no x-api-key header.
C31_BasicPrecedence ==
    \A p \in DidProcs :
        (/\ dOut[p].kind # "none"
         /\ Trim(didBasicAuthEnv) # <<>>
         /\ Trim(Or(didApiKeyEnv, didPublicKeyEnv)) # <<>>)
        => /\ StartsWithBasic(dOut[p].headers.authorization)
           /\ Len(dOut[p].headers.authorization) = 2
           /\ dOut[p].headers.xApiKey = <<>>

C31_Witness ==
    \E p \in DidProcs :
        /\ dOut[p].kind = "status"
        /\ dOut[p].endpoint = "legacy"
        /\ didBasicAuthEnv = <<"x">>
        /\ didApiKeyEnv = <<"k">>
        /\ dOut[p].headers.authorization = <<"Basic ", "x">>

\* C32: the submission cascade goes on to its next tier only when the
\* request of a tier was answered with a non-success status; when the
\* request of a tier (the first or a later one) fails at transport level,
\* the invocation ends in that step with the generic failure (500, "Request
\* failed") and no job id, having issued no further create request and no
\* status request.
C32_ThrowStopsCascade ==
    [][\A p \in DidProcs :
          /\ (dpc[p] = "create" /\ dSub'[p] # dSub[p]) =>
                /\ dRes'[p] = "throw" =>
                      /\ dpc'[p] = "done"
                      /\ dOut'[p] = NoOut
                      /\ dResult'[p] = DidErrorJson(500, "Request failed",
                                           <<"TypeError: fetch failed">>, "", "")
                      /\ dId'[p] = ""
                      /\ dStartedAt'[p] = -1
                /\ dRes'[p] # "throw" => (dpc'[p] = "createRead" /\ dOut'[p] = NoOut)
          /\ (dpc[p] = "createRead" /\ dpc'[p] # dpc[p]) =>
                /\ dOut'[p].kind = "create" =>
                      /\ dRes'[p] = "nonok"
                      /\ dOut'[p] = CreateRequest(Len(dSub[p]), buildAuthHeaders(dAuth[p]))
                /\ dOut'[p].kind = "status" => dRes'[p] = "ok"
                /\ dRes'[p] = "nonok" => dOut'[p].kind # "status"]_vars

C32_Witness ==
    \E p \in DidProcs :
        /\ dpc[p] = "done"
        /\ Len(dSub[p]) = 3
        /\ dSub[p][3].kind = "throw"
        /\ dSub[p][3].endpoint = "legacy"
        /\ dResult[p].status = 500
        /\ dResult[p].error = "Request failed"
        /\ dId[p] = ""

\* C33: when, in one poll attempt, the primary status request and then the
\* legacy status request are both answered with a non-success status, the
\* invocation ends in that step, whatever time is left before the deadline:
\* no request goes out, no timer is set, and the response is the generic
\* failure (500, "Request failed") whose detail carries the text of the
\* legacy response and which does not name the job.
C33_BothStatusPathsFail ==
    [][\A p \in DidProcs :
          (dpc[p] = "read2" /\ dRes[p] = "nonok" /\ dpc'[p] # "read2") =>
             /\ dpc'[p] = "done"
             /\ dOut'[p] = NoOut
             /\ dWakeAt'[p] = dWakeAt[p]
             /\ dResult'[p] = DidErrorJson(500, "Request failed",
                                  <<"Error: ", "D-ID status error: ", dErr'[p]>>, "", "")
             /\ dErr'[p] \in {"s1", "s2"}
             /\ dResult'[p].id = ""]_vars

C33_Witness ==
    \E p \in DidProcs :
        /\ dpc[p] = "done"
        /\ dRes[p] = "nonok"
        /\ dId[p] # ""
        /\ dLastStatus[p] = "pending"
        /\ now - dStartedAt[p] < timeoutMs
        /\ dResult[p].status = 500
        /\ dResult[p].detail = <<"Error: ", "D-ID status error: ", "s2">>

\* C34: a successful submission is always followed by a first status
\* request, whatever time the submission took; so an invocation that ends
\* with the timeout (504) has received at least one poll response, and the
\* status it reports is the status of the last poll response it received.
C34_PollBeforeTimeout ==
    /\ \A p \in DidProcs :
          dResult[p].status = 504 =>
             /\ dS[p] # NoStatus
             /\ dS[p].status # ""
             /\ dResult[p].jobStatus = dS[p].status
             /\ dLastStatus[p] = dS[p].status
    /\ \A p \in DidProcs :
          (dId[p] # "" /\ dS[p] = NoStatus /\ dpc[p] # "done") =>
             /\ dpc[p] \in {"status1", "read1", "status2", "read2"}
             /\ dOut[p].kind = "status" \/ dpc[p] \in {"read1", "read2"}

C34_Witness ==
    \E p \in DidProcs :
        /\ dResult[p].status = 504
        /\ dResult[p].jobStatus = "created"
        /\ dS[p].status = "created"
        /\ dFirstReqAt[p] < dStartedAt[p]
        /\ Len(dSub[p]) = 4

\* C35: the deadline is tested only at the head of the poll loop.  A poll
\* attempt (its primary status request) starts only while less than 30 s
\* have passed since startedAt; once started it is carried through whatever
\* the clock shows: a non-success primary answer is still followed by the
\* legacy request, and a "done" response with a result url yields the
\* success response (200) even when it arrives after the deadline; the
\* timeout is reported only from the head of the loop.
C35_DeadlineOnlyAtLoopHead ==
    [][\A p \in DidProcs :
          /\ (dpc[p] # "status1" /\ dpc'[p] = "status1")
             => now - dStartedAt'[p] < timeoutMs
          /\ (dpc[p] \in {"read1", "read2"} /\ dpc'[p] # dpc[p]
              /\ dRes'[p] = "ok" /\ dS'[p].status = "done" /\ dS'[p].result_url # "")
             => /\ dpc'[p] = "done"
                /\ dResult'[p] = DidVideoJson(dId[p], dS'[p].result_url)
          /\ (dpc[p] = "read1" /\ dpc'[p] # dpc[p] /\ dRes'[p] = "nonok")
             => /\ dpc'[p] = "status2"
                /\ dOut'[p] = StatusRequest("legacy", dAuth[p], dId[p])
          /\ (dpc[p] \in {"status1", "read1", "status2", "read2"} /\ dpc'[p] # dpc[p])
             => dResult'[p].status # 504]_vars

\* a "done" response with its url was answered after the deadline and gave
\* the success response
C35_Witness ==
    \E p \in DidProcs :
        /\ dpc[p] = "done"
        /\ dResult[p].status = 200
        /\ dResult[p].videoUrl = "url1"
        /\ now - dStartedAt[p] >= timeoutMs
        /\ dStartedAt[p] >= 0

\* C36: while interactive mode is closed, no step of the page starts a
\* recognition session through startInteractiveListening, speaks a reply
\* through the auto-speak callback, or runs an auto-restart callback; that
\* is, once the mode has been closed nothing of it goes on until it is
\* opened again.
C36_CloseStopsEverything ==
    ~interactiveMode =>
        /\ last.start # "interactive"
        /\ ~last.spoke
        /\ ~last.restart

\* C37: rec.start() is never called, by startListening or by the timer
\* callback of startInteractiveListening, while the session started before
\* has not ended.
C37_OneSessionAtATime == ~last.busy


====
